---- MODULE Spec2Model ----
(***************************************************************************)
(* Model of bot/services/mailing.py: the mass broadcast send_mass_message  *)
(* (one run, stepped between its await points), its helpers                *)
(* _send_media_message and _update_error_summary.                          *)
(*                                                                         *)
(* Time is counted in ticks of 1/TicksPerSecond seconds.  The variables    *)
(* hist, trace, inflight, gap and dispatches observe the run               *)
(* (what was called, when, and how each position was counted); the code    *)
(* neither reads nor writes them.  progress holds the progress lines the   *)
(* run has logged.                                                         *)
(***************************************************************************)
EXTENDS Integers, Sequences, FiniteSets, TLC

VARIABLES
    recipients,     \* argument: list of user ids
    content,        \* argument: MessageContent
    rps,            \* argument: messages per second
    pc,             \* where the coroutine is suspended
    idx,            \* loop counter of enumerate(recipients, 1); 0 before the loop
    user_id,        \* loop variable
    sent_count,
    failed_count,
    skipped_count,
    error_summary,  \* dict: error key -> count
    retry_after,    \* e.retry_after while the RetryAfter handler runs
    result,         \* the returned MailingResult, NoResult until the return
    hist,           \* per started position: target, transport calls, outcomes, how counted
    trace,          \* calls (with the gap before them) and sleeps of the position being processed
    inflight,       \* transport calls awaiting their answer
    gap,            \* ticks since the previous transport call started (capped)
    dispatches,     \* transport calls started so far
    progress,       \* the progress lines logged so far
    chan,           \* one send_to_channel invocation: arguments, position, calls, return value
    runs,           \* concurrent send_mass_message invocations: run id -> its local variables
    giveaways,      \* committed rows of table giveaways: row id -> is_active
    tx,             \* open database sessions: admin -> transaction state
    fsm_state,      \* FSM state of the admin in the broadcast wizard
    tasks,          \* confirm_broadcast handler tasks: task -> its position and locals
    received,       \* user id -> broadcast messages received
    users,          \* committed rows of table users: the user ids
    participants,   \* committed rows of table participants, in commit order
    winners,        \* committed rows of table winners, in commit order
    starts,         \* start_handler tasks: task -> its position, locals and session
    selects,        \* select_winners_handler tasks: task -> its position, locals and session
    fsm,            \* FSM storage: user id -> state and data
    report,         \* one publishing handler: target, what was delivered, what it reports
    audit           \* privileged operations carried out: who sent the update, which operation

Mailing == <<recipients, content, rps, pc, idx, user_id, sent_count,
             failed_count, skipped_count, error_summary, retry_after, result,
             hist, trace, inflight, gap, dispatches, progress>>

\* What a send_mass_message run never touches.
Database == <<giveaways, tx>>

Wizard == <<fsm_state, tasks, received>>

Rows == <<users, participants, winners>>

Handlers == <<starts, selects, report, audit>>

Outside == <<chan, runs, Database, Wizard, Rows, Handlers, fsm>>

vars == <<Mailing, Outside>>

-----------------------------------------------------------------------------
(* Bounds and input sets *)

MaxRecipients == 2
MaxRetryAfter == 2
ProgressEvery == 2      \* positions between two progress lines (the code's 100, scaled to the lists)

None == "None"
Users == {1, 2}
RpsValues == {10, 20}
ApiCodes == {None, "400"}
BurstValues == {1, 5}      \* configured burst values considered (default 5)
max_retries == 5
RetryAfterSeconds == 1..MaxRetryAfter    \* TelegramRetryAfter.retry_after, whole seconds
CallDelays == {0, 1}    \* a transport call answers at once or after one delay
RetrySignals == {"RetryAfter", "Forbidden", "ApiError", "Unexpected"}

SupportedMedia == {"photo", "video", "animation", "document"}

MkContent(t, f, m, k) == [text |-> t, media_file_id |-> f, media_type |-> m, reply_markup |-> k]

Contents == {
    MkContent(None, None, None, None),
    MkContent("", None, None, "kb"),
    MkContent("hi", None, None, None),
    MkContent("hi", "f1", None, "kb"),
    MkContent(None, "f1", None, None),
    MkContent(None, "f1", "photo", None),
    MkContent("hi", "f1", "video", "kb"),
    MkContent("", "f1", "animation", None),
    MkContent("hi", "f1", "document", None),
    MkContent(None, "f1", "audio", None),
    MkContent("hi", "f1", "audio", "kb") }

RecipientLists == UNION {[1..n -> Users] : n \in 0..MaxRecipients}

-----------------------------------------------------------------------------
(* Pure helpers *)

Truthy(x) == x \notin {None, ""}

Max(S) == CHOOSE x \in S : \A y \in S : y <= x

TicksPerSecond == Max(RpsValues)

Delay == TicksPerSecond \div rps

Cap(t) == IF t > Delay THEN Delay ELSE t

EmptyDict == [k \in {} |-> 0]

Get(summary, k) == IF k \in DOMAIN summary THEN summary[k] ELSE 0

\* Mutant: the entry is set to 1 instead of counted up.
_update_error_summary_Overwrite(summary, error_type) ==
    [k \in DOMAIN summary \cup {error_type} |-> IF k = error_type THEN 1 ELSE summary[k]]

_update_error_summary(summary, error_type) ==
    [k \in (DOMAIN summary) \cup {error_type} |->
        IF k = error_type THEN Get(summary, k) + 1 ELSE summary[k]]

\* Mutant: the error code is left out of the key.
ApiErrorKey_Generic(code) == "api_error"

ApiErrorKey(code) == IF code = None THEN "api_error" ELSE "api_error_" \o code

NoCall == [method |-> None, chat_id |-> 0, text |-> None, file |-> None,
           caption |-> None, reply_markup |-> None]

Call(m, uid, t, f, cap, k) ==
    [method |-> m, chat_id |-> uid, text |-> t, file |-> f, caption |-> cap, reply_markup |-> k]

MediaMethod(t) ==
    CASE t = "photo" -> "send_photo"
      [] t = "video" -> "send_video"
      [] t = "animation" -> "send_animation"
      [] t = "document" -> "send_document"

ValueError == [kind |-> "raise", call |-> NoCall]
NoOp == [kind |-> "none", call |-> NoCall]
DoCall(c) == [kind |-> "call", call |-> c]

_send_media_message(uid, c) ==
    IF ~Truthy(c.media_file_id) \/ ~Truthy(c.media_type) THEN ValueError
    ELSE IF c.media_type \in SupportedMedia
         THEN DoCall(Call(MediaMethod(c.media_type), uid, None, c.media_file_id,
                          IF Truthy(c.text) THEN c.text ELSE None, c.reply_markup))
         ELSE ValueError

\* Mutant: the text branch tests `is not None` instead of truthiness.
Dispatch_TextNotNone(uid, c) ==
    IF Truthy(c.media_file_id) /\ Truthy(c.media_type) THEN _send_media_message(uid, c)
    ELSE IF c.text # None THEN DoCall(Call("send_message", uid, c.text, None, None, c.reply_markup))
    ELSE NoOp

Dispatch(uid, c) ==
    IF Truthy(c.media_file_id) /\ Truthy(c.media_type) THEN _send_media_message(uid, c)
    ELSE IF Truthy(c.text) THEN DoCall(Call("send_message", uid, c.text, None, None, c.reply_markup))
    ELSE NoOp

NoResult ==
    [total_recipients |-> -1, sent_count |-> 0, failed_count |-> 0, skipped_count |-> 0,
     error_summary |-> EmptyDict]

MailingResult ==
    [total_recipients |-> Len(recipients), sent_count |-> sent_count,
     failed_count |-> failed_count, skipped_count |-> skipped_count,
     error_summary |-> error_summary]

-----------------------------------------------------------------------------
(* Observation helpers *)

CallEv(c) == [ev |-> "call", call |-> c, ticks |-> gap]
SleepEv(why, t) == [ev |-> why, call |-> NoCall, ticks |-> t]

HistEntry(target, calls, first, counted) ==
    [target |-> target, calls |-> calls, first |-> first, code |-> None, retry |-> None,
     counted |-> counted]

BeginCall(c) ==
    /\ inflight' = inflight + 1
    /\ gap' = 0
    /\ dispatches' = dispatches + 1

EndCall(d) ==
    /\ inflight' = inflight - 1
    /\ gap' = Cap(gap + d * Delay)
    /\ UNCHANGED dispatches

NoTransport == UNCHANGED <<inflight, gap, dispatches>>

\* The end of the loop body, reached by every iteration that does not
\* `continue`: a progress line when idx is a multiple of the cadence.
LogProgress ==
    progress' = IF pc' = "loop" /\ idx' % ProgressEvery = 0
                THEN Append(progress, [idx |-> idx', total |-> Len(recipients),
                                       sent_count |-> sent_count',
                                       failed_count |-> failed_count'])
                ELSE progress

Args == <<recipients, content, rps>>

ChannelIds == {-1001, -1002, -1003}

\* No send_to_channel invocation.
ChanIdle ==
    [pc |-> "idle", channel_id |-> 0, content |-> MkContent(None, None, None, None),
     calls |-> << >>, sleeps |-> 0, outcome |-> None, ret |-> None]

DatabaseIdle == giveaways = << >> /\ tx = << >>

WizardIdle == fsm_state = None /\ tasks = << >> /\ received = << >>

RowsIdle == users = {} /\ participants = << >> /\ winners = << >>

HandlersIdle == starts = << >> /\ selects = << >> /\ report = << >> /\ audit = {}

FsmIdle == fsm = << >>

OutsideIdle ==
    /\ chan = ChanIdle /\ runs = << >> /\ DatabaseIdle /\ WizardIdle
    /\ RowsIdle /\ HandlersIdle /\ FsmIdle

-----------------------------------------------------------------------------
(* send_mass_message *)

Init ==
    /\ recipients \in RecipientLists
    /\ content \in Contents
    /\ rps \in RpsValues
    /\ pc = "loop"
    /\ idx = 0
    /\ user_id = 0
    /\ sent_count = 0
    /\ failed_count = 0
    /\ skipped_count = 0
    /\ error_summary = EmptyDict
    /\ retry_after = -1
    /\ result = NoResult
    /\ hist = << >>
    /\ trace = << >>
    /\ inflight = 0
    /\ gap = Delay
    /\ dispatches = 0
    /\ progress = << >>
    /\ OutsideIdle

\* Mutant: the list is walked from its end.
StartSend_Reversed ==
    /\ pc = "loop"
    /\ idx < Len(recipients)
    /\ LET uid == recipients[Len(recipients) - idx]
           d == Dispatch(uid, content)
       IN /\ d.kind = "call"
          /\ idx' = idx + 1
          /\ user_id' = uid
          /\ pc' = "send"
          /\ trace' = <<CallEv(d.call)>>
          /\ hist' = Append(hist, HistEntry(d.call.chat_id, 1, None, None))
          /\ BeginCall(d.call)
    /\ UNCHANGED <<Args, Outside, sent_count, failed_count, skipped_count, error_summary,
                   retry_after, result>>
    /\ UNCHANGED progress

\* Next iteration, content dispatches: the first transport call starts.
StartSend ==
    /\ pc = "loop"
    /\ idx < Len(recipients)
    /\ LET uid == recipients[idx + 1]
           d == Dispatch(uid, content)
       IN /\ d.kind = "call"
          /\ idx' = idx + 1
          /\ user_id' = uid
          /\ pc' = "send"
          /\ trace' = <<CallEv(d.call)>>
          /\ hist' = Append(hist, HistEntry(d.call.chat_id, 1, None, None))
          /\ BeginCall(d.call)
    /\ UNCHANGED <<Args, Outside, sent_count, failed_count, skipped_count, error_summary,
                   retry_after, result>>
    /\ UNCHANGED progress

\* Next iteration, _send_media_message raises ValueError (unsupported media_type):
\* caught by `except Exception`.
MediaValueError ==
    /\ pc = "loop"
    /\ idx < Len(recipients)
    /\ LET uid == recipients[idx + 1]
           d == Dispatch(uid, content)
       IN /\ d.kind = "raise"
          /\ idx' = idx + 1
          /\ user_id' = uid
          /\ failed_count' = failed_count + 1
          /\ error_summary' = _update_error_summary(error_summary, "unexpected")
          /\ hist' = Append(hist, HistEntry(0, 0, "ValueError", "failed"))
    /\ trace' = << >>
    /\ pc' = "loop"
    /\ NoTransport
    /\ UNCHANGED <<Args, Outside, sent_count, skipped_count, retry_after, result>>
    /\ LogProgress

\* Next iteration, neither media nor text: skipped, `continue`.
SkipEmpty ==
    /\ pc = "loop"
    /\ idx < Len(recipients)
    /\ LET uid == recipients[idx + 1]
           d == Dispatch(uid, content)
       IN /\ d.kind = "none"
          /\ idx' = idx + 1
          /\ user_id' = uid
          /\ skipped_count' = skipped_count + 1
          /\ hist' = Append(hist, HistEntry(0, 0, None, "skipped"))
    /\ trace' = << >>
    /\ pc' = "loop"
    /\ NoTransport
    /\ UNCHANGED <<Args, Outside, sent_count, failed_count, error_summary, retry_after, result>>
    /\ UNCHANGED progress

\* Mutant: a delivered message is not counted.
SendOk_NoCount(d) ==
    /\ pc = "send"
    /\ hist' = [hist EXCEPT ![idx].first = "ok", ![idx].counted = "sent"]
    /\ EndCall(d)
    /\ IF idx < Len(recipients)
       THEN /\ pc' = "rate_sleep"
            /\ trace' = Append(trace, SleepEv("rate_sleep", Delay))
       ELSE /\ pc' = "loop"
            /\ trace' = << >>
    /\ UNCHANGED <<Args, Outside, idx, user_id, sent_count, failed_count, skipped_count,
                   error_summary, retry_after, result>>
    /\ LogProgress

\* Mutant: the rate-limit sleep follows every delivered message, the last too.
SendOk_AlwaysSleeps(d) ==
    /\ pc = "send"
    /\ sent_count' = sent_count + 1
    /\ hist' = [hist EXCEPT ![idx].first = "ok", ![idx].counted = "sent"]
    /\ EndCall(d)
    /\ pc' = "rate_sleep"
    /\ trace' = Append(trace, SleepEv("rate_sleep", Delay))
    /\ UNCHANGED <<Args, Outside, idx, user_id, failed_count, skipped_count, error_summary,
                   retry_after, result>>
    /\ LogProgress

\* The first call returns normally: sent, then the rate-limit sleep unless last.
SendOk(d) ==
    /\ pc = "send"
    /\ sent_count' = sent_count + 1
    /\ hist' = [hist EXCEPT ![idx].first = "ok", ![idx].counted = "sent"]
    /\ EndCall(d)
    /\ IF idx < Len(recipients)
       THEN /\ pc' = "rate_sleep"
            /\ trace' = Append(trace, SleepEv("rate_sleep", Delay))
       ELSE /\ pc' = "loop"
            /\ trace' = << >>
    /\ UNCHANGED <<Args, Outside, idx, user_id, failed_count, skipped_count, error_summary,
                   retry_after, result>>
    /\ LogProgress

\* asyncio.sleep(delay) is over.
RateSleepDone ==
    /\ pc = "rate_sleep"
    /\ gap' = Cap(gap + trace[Len(trace)].ticks)
    /\ trace' = << >>
    /\ pc' = "loop"
    /\ UNCHANGED <<Args, Outside, idx, user_id, sent_count, failed_count, skipped_count,
                   error_summary, retry_after, result, hist, inflight,
                   dispatches>>
    /\ LogProgress

\* Mutant: the handler sleeps the rate-limit delay, not e.retry_after.
SendRetryAfter_SleepsDelay(d, s) ==
    /\ pc = "send"
    /\ retry_after' = s
    /\ hist' = [hist EXCEPT ![idx].first = "RetryAfter"]
    /\ EndCall(d)
    /\ pc' = "retry_sleep"
    /\ trace' = Append(trace, SleepEv("retry_sleep", Delay))
    /\ UNCHANGED <<Args, Outside, idx, user_id, sent_count, failed_count, skipped_count,
                   error_summary, result>>
    /\ UNCHANGED progress

\* The first call raises TelegramRetryAfter(s): sleep e.retry_after.
SendRetryAfter(d, s) ==
    /\ pc = "send"
    /\ retry_after' = s
    /\ hist' = [hist EXCEPT ![idx].first = "RetryAfter"]
    /\ EndCall(d)
    /\ pc' = "retry_sleep"
    /\ trace' = Append(trace, SleepEv("retry_sleep", s * TicksPerSecond))
    /\ UNCHANGED <<Args, Outside, idx, user_id, sent_count, failed_count, skipped_count,
                   error_summary, result>>
    /\ UNCHANGED progress

\* asyncio.sleep(e.retry_after) is over: the retry call starts.
RetrySleepDone ==
    /\ pc = "retry_sleep"
    /\ LET g == Cap(gap + trace[Len(trace)].ticks)
           d == Dispatch(user_id, content)
       IN IF d.kind = "call"
          THEN /\ pc' = "retry_send"
               /\ trace' = Append(trace, [CallEv(d.call) EXCEPT !.ticks = g])
               /\ hist' = [hist EXCEPT ![idx].calls = @ + 1]
               /\ inflight' = inflight + 1
               /\ gap' = 0
               /\ dispatches' = dispatches + 1
               /\ UNCHANGED <<sent_count, failed_count, error_summary, retry_after>>
          ELSE IF d.kind = "raise"
          THEN /\ pc' = "loop"
               /\ failed_count' = failed_count + 1
               /\ error_summary' = _update_error_summary(error_summary, "retry_failed")
               /\ hist' = [hist EXCEPT ![idx].retry = "ValueError", ![idx].counted = "failed"]
               /\ gap' = g
               /\ retry_after' = -1
               /\ trace' = << >>
               /\ UNCHANGED <<sent_count, inflight, dispatches>>
          ELSE /\ pc' = "loop"
               /\ sent_count' = sent_count + 1
               /\ hist' = [hist EXCEPT ![idx].retry = "ok", ![idx].counted = "sent"]
               /\ gap' = g
               /\ retry_after' = -1
               /\ trace' = << >>
               /\ UNCHANGED <<failed_count, error_summary, inflight, dispatches>>
    /\ UNCHANGED <<Args, Outside, idx, user_id, skipped_count, result>>
    /\ LogProgress

\* Mutant: a successful retry is not counted.
RetryOk_NoCount(d) ==
    /\ pc = "retry_send"
    /\ hist' = [hist EXCEPT ![idx].retry = "ok", ![idx].counted = "sent"]
    /\ EndCall(d)
    /\ retry_after' = -1
    /\ pc' = "loop"
    /\ trace' = << >>
    /\ UNCHANGED <<Args, Outside, idx, user_id, sent_count, failed_count, skipped_count,
                   error_summary, result>>
    /\ LogProgress

\* The retry returns normally.
RetryOk(d) ==
    /\ pc = "retry_send"
    /\ sent_count' = sent_count + 1
    /\ hist' = [hist EXCEPT ![idx].retry = "ok", ![idx].counted = "sent"]
    /\ EndCall(d)
    /\ retry_after' = -1
    /\ pc' = "loop"
    /\ trace' = << >>
    /\ UNCHANGED <<Args, Outside, idx, user_id, failed_count, skipped_count, error_summary,
                   result>>
    /\ LogProgress

\* Mutant: a RetryAfter raised by the retry is retried again, up to max_retries calls.
RetryFails_Again(d, sig) ==
    /\ pc = "retry_send"
    /\ sig \in RetrySignals
    /\ EndCall(d)
    /\ IF sig = "RetryAfter" /\ hist[idx].calls <= max_retries
       THEN /\ pc' = "retry_sleep"
            /\ trace' = <<trace[1], SleepEv("retry_sleep", retry_after * TicksPerSecond)>>
            /\ UNCHANGED <<failed_count, error_summary, hist, retry_after>>
       ELSE /\ failed_count' = failed_count + 1
            /\ error_summary' = _update_error_summary(error_summary, "retry_failed")
            /\ hist' = [hist EXCEPT ![idx].retry = sig, ![idx].counted = "failed"]
            /\ retry_after' = -1
            /\ pc' = "loop"
            /\ trace' = << >>
    /\ UNCHANGED <<Args, Outside, idx, user_id, sent_count, skipped_count, result>>
    /\ LogProgress

\* Mutant: a failed retry is recorded under the key of its own signal.
RetryFails_ByKind(d, sig) ==
    /\ pc = "retry_send"
    /\ sig \in RetrySignals
    /\ failed_count' = failed_count + 1
    /\ error_summary' = _update_error_summary(error_summary,
            CASE sig = "Forbidden" -> "blocked"
              [] sig = "ApiError" -> "api_error"
              [] sig = "Unexpected" -> "unexpected"
              [] OTHER -> "retry_failed")
    /\ hist' = [hist EXCEPT ![idx].retry = sig, ![idx].counted = "failed"]
    /\ EndCall(d)
    /\ retry_after' = -1
    /\ pc' = "loop"
    /\ trace' = << >>
    /\ UNCHANGED <<Args, Outside, idx, user_id, sent_count, skipped_count, result>>
    /\ LogProgress

\* The retry raises (any Exception).
RetryFails(d, sig) ==
    /\ pc = "retry_send"
    /\ sig \in RetrySignals
    /\ failed_count' = failed_count + 1
    /\ error_summary' = _update_error_summary(error_summary, "retry_failed")
    /\ hist' = [hist EXCEPT ![idx].retry = sig, ![idx].counted = "failed"]
    /\ EndCall(d)
    /\ retry_after' = -1
    /\ pc' = "loop"
    /\ trace' = << >>
    /\ UNCHANGED <<Args, Outside, idx, user_id, sent_count, skipped_count, result>>
    /\ LogProgress

\* Mutant: a blocked user falls through to the generic handler.
SendForbidden_Unexpected(d) ==
    /\ pc = "send"
    /\ failed_count' = failed_count + 1
    /\ error_summary' = _update_error_summary(error_summary, "unexpected")
    /\ hist' = [hist EXCEPT ![idx].first = "Forbidden", ![idx].counted = "failed"]
    /\ EndCall(d)
    /\ pc' = "loop"
    /\ trace' = << >>
    /\ UNCHANGED <<Args, Outside, idx, user_id, sent_count, skipped_count, retry_after,
                   result>>
    /\ LogProgress

\* The first call raises TelegramForbiddenError.
SendForbidden(d) ==
    /\ pc = "send"
    /\ failed_count' = failed_count + 1
    /\ error_summary' = _update_error_summary(error_summary, "blocked")
    /\ hist' = [hist EXCEPT ![idx].first = "Forbidden", ![idx].counted = "failed"]
    /\ EndCall(d)
    /\ pc' = "loop"
    /\ trace' = << >>
    /\ UNCHANGED <<Args, Outside, idx, user_id, sent_count, skipped_count, retry_after,
                   result>>
    /\ LogProgress

\* The first call raises another TelegramAPIError, with or without error_code.
SendApiError(d, code) ==
    /\ pc = "send"
    /\ failed_count' = failed_count + 1
    /\ error_summary' = _update_error_summary(error_summary, ApiErrorKey(code))
    /\ hist' = [hist EXCEPT ![idx].first = "ApiError", ![idx].code = code,
                             ![idx].counted = "failed"]
    /\ EndCall(d)
    /\ pc' = "loop"
    /\ trace' = << >>
    /\ UNCHANGED <<Args, Outside, idx, user_id, sent_count, skipped_count, retry_after,
                   result>>
    /\ LogProgress

\* Mutant: an unexpected error ends the loop; the result so far is returned.
SendUnexpected_Break(d) ==
    /\ pc = "send"
    /\ failed_count' = failed_count + 1
    /\ error_summary' = _update_error_summary(error_summary, "unexpected")
    /\ hist' = [hist EXCEPT ![idx].first = "Unexpected", ![idx].counted = "failed"]
    /\ EndCall(d)
    /\ pc' = "done"
    /\ result' = [MailingResult EXCEPT !.failed_count = failed_count + 1,
                                        !.error_summary = _update_error_summary(error_summary, "unexpected")]
    /\ trace' = << >>
    /\ UNCHANGED <<Args, Outside, idx, user_id, sent_count, skipped_count, retry_after>>
    /\ LogProgress

\* The first call raises any other Exception.
SendUnexpected(d) ==
    /\ pc = "send"
    /\ failed_count' = failed_count + 1
    /\ error_summary' = _update_error_summary(error_summary, "unexpected")
    /\ hist' = [hist EXCEPT ![idx].first = "Unexpected", ![idx].counted = "failed"]
    /\ EndCall(d)
    /\ pc' = "loop"
    /\ trace' = << >>
    /\ UNCHANGED <<Args, Outside, idx, user_id, sent_count, skipped_count, retry_after,
                   result>>
    /\ LogProgress

\* Mutant: a run with failures raises instead of returning.
Return_RaisesOnFailure ==
    /\ pc = "loop"
    /\ idx = Len(recipients)
    /\ IF failed_count > 0
       THEN pc' = "raised" /\ result' = result
       ELSE pc' = "done" /\ result' = MailingResult
    /\ UNCHANGED <<Args, Outside, idx, user_id, sent_count, failed_count, skipped_count,
                   error_summary, retry_after, hist, trace, inflight, gap,
                   dispatches>>
    /\ UNCHANGED progress

\* The loop is exhausted: build and return the MailingResult.
Return ==
    /\ pc = "loop"
    /\ idx = Len(recipients)
    /\ result' = MailingResult
    /\ pc' = "done"
    /\ UNCHANGED <<Args, Outside, idx, user_id, sent_count, failed_count, skipped_count,
                   error_summary, retry_after, hist, trace, inflight, gap,
                   dispatches>>
    /\ UNCHANGED progress

Next ==
    \/ StartSend
    \/ MediaValueError
    \/ SkipEmpty
    \/ \E d \in CallDelays : SendOk(d)
    \/ RateSleepDone
    \/ \E d \in CallDelays, s \in RetryAfterSeconds : SendRetryAfter(d, s)
    \/ RetrySleepDone
    \/ \E d \in CallDelays : RetryOk(d)
    \/ \E d \in CallDelays, sig \in RetrySignals : RetryFails(d, sig)
    \/ \E d \in CallDelays : SendForbidden(d)
    \/ \E d \in CallDelays, code \in ApiCodes : SendApiError(d, code)
    \/ \E d \in CallDelays : SendUnexpected(d)
    \/ Return

Spec == Init /\ [][Next]_vars

\* Every await returns: the event loop resumes the coroutine.
FairSpec == Spec /\ WF_vars(Next)

Suspended == pc \in {"send", "rate_sleep", "retry_sleep", "retry_send"}

\* Mutant: the retry's handler is a bare `except:`, which also catches CancelledError.
Cancel_Absorbed ==
    /\ Suspended
    /\ inflight' = 0
    /\ IF pc = "retry_send"
       THEN /\ failed_count' = failed_count + 1
            /\ error_summary' = _update_error_summary(error_summary, "retry_failed")
            /\ hist' = [hist EXCEPT ![idx].retry = "Unexpected", ![idx].counted = "failed"]
            /\ pc' = "loop"
       ELSE /\ pc' = "cancelled"
            /\ UNCHANGED <<failed_count, error_summary, hist>>
    /\ trace' = Append(trace, SleepEv("cancel", 0))
    /\ UNCHANGED <<Args, Outside, idx, user_id, sent_count, skipped_count, retry_after,
                   result, gap, dispatches>>
    /\ LogProgress

\* The host cancels the task: the pending await raises asyncio.CancelledError,
\* a BaseException that no except clause of send_mass_message matches.
Cancel ==
    /\ Suspended
    /\ pc' = "cancelled"
    /\ inflight' = 0
    /\ trace' = Append(trace, SleepEv("cancel", 0))
    /\ UNCHANGED <<Args, Outside, idx, user_id, sent_count, failed_count, skipped_count,
                   error_summary, retry_after, result, hist, gap, dispatches>>
    /\ UNCHANGED progress

SpecCancel == Init /\ [][Next \/ Cancel]_vars

-----------------------------------------------------------------------------
(* send_to_channel *)

\* The state of the broadcast while none runs.
MailingIdle ==
    /\ recipients = << >>
    /\ content = MkContent(None, None, None, None)
    /\ rps = Max(RpsValues)
    /\ pc = "idle"
    /\ idx = 0
    /\ user_id = 0
    /\ sent_count = 0
    /\ failed_count = 0
    /\ skipped_count = 0
    /\ error_summary = EmptyDict
    /\ retry_after = -1
    /\ result = NoResult
    /\ hist = << >>
    /\ trace = << >>
    /\ inflight = 0
    /\ gap = 0
    /\ dispatches = 0
    /\ progress = << >>

ChannelInit ==
    /\ MailingIdle
    /\ \E ch \in ChannelIds, c \in Contents :
          chan = [ChanIdle EXCEPT !.pc = "start", !.channel_id = ch, !.content = c]
    /\ runs = << >>
    /\ DatabaseIdle
    /\ WizardIdle
    /\ RowsIdle /\ HandlersIdle /\ FsmIdle

ChanDone(outcome, ret) ==
    chan' = [chan EXCEPT !.pc = "done", !.outcome = outcome, !.ret = ret]

\* The content dispatches: the transport call starts.
ChannelSend ==
    /\ chan.pc = "start"
    /\ LET d == Dispatch(chan.channel_id, chan.content)
       IN /\ d.kind = "call"
          /\ chan' = [chan EXCEPT !.pc = "send", !.calls = Append(@, d.call)]
    /\ UNCHANGED <<Mailing, runs, Database, Wizard, Rows, Handlers, fsm>>

\* _send_media_message raises ValueError: caught by `except Exception`, False.
ChannelValueError ==
    /\ chan.pc = "start"
    /\ Dispatch(chan.channel_id, chan.content).kind = "raise"
    /\ ChanDone("ValueError", "False")
    /\ UNCHANGED <<Mailing, runs, Database, Wizard, Rows, Handlers, fsm>>

\* Neither media nor text: logged, False.
ChannelEmpty ==
    /\ chan.pc = "start"
    /\ Dispatch(chan.channel_id, chan.content).kind = "none"
    /\ ChanDone(None, "False")
    /\ UNCHANGED <<Mailing, runs, Database, Wizard, Rows, Handlers, fsm>>

\* The call returns normally: True.
ChannelOk ==
    /\ chan.pc = "send"
    /\ ChanDone("ok", "True")
    /\ UNCHANGED <<Mailing, runs, Database, Wizard, Rows, Handlers, fsm>>

\* Mutant: only Telegram errors are caught; any other exception propagates.
ChannelFails_Propagates(sig) ==
    /\ chan.pc = "send"
    /\ sig \in RetrySignals
    /\ IF sig = "Unexpected"
       THEN chan' = [chan EXCEPT !.pc = "raised", !.outcome = sig]
       ELSE ChanDone(sig, "False")
    /\ UNCHANGED <<Mailing, runs, Database, Wizard, Rows, Handlers, fsm>>

\* Mutant: RetryAfter is slept out and the call repeated, as in the broadcast.
ChannelFails_Retries(sig) ==
    /\ chan.pc = "send"
    /\ sig \in RetrySignals
    /\ IF sig = "RetryAfter" /\ Len(chan.calls) < 2
       THEN chan' = [chan EXCEPT !.sleeps = @ + 1, !.calls = Append(@, chan.calls[1])]
       ELSE ChanDone(sig, "False")
    /\ UNCHANGED <<Mailing, runs, Database, Wizard, Rows, Handlers, fsm>>

\* The call raises (any Exception): logged, False.
ChannelFails(sig) ==
    /\ chan.pc = "send"
    /\ sig \in RetrySignals
    /\ ChanDone(sig, "False")
    /\ UNCHANGED <<Mailing, runs, Database, Wizard, Rows, Handlers, fsm>>

ChannelNext ==
    \/ ChannelSend
    \/ ChannelValueError
    \/ ChannelEmpty
    \/ ChannelOk
    \/ \E sig \in RetrySignals : ChannelFails(sig)

SpecChannel == ChannelInit /\ [][ChannelNext]_vars

-----------------------------------------------------------------------------
(* Two send_mass_message invocations on one event loop.  Each invocation's   *)
(* variables are the locals of its own coroutine frame; log is the list of   *)
(* transport answers it got, one entry per processed position.               *)

RunIds == {1, 2}

ConcRecipientLists == {<<1>>, <<2, 1>>}

ConcContents == {
    MkContent("hi", None, None, None),
    MkContent(None, "f1", "audio", None),
    MkContent(None, None, None, None) }

NewRun(rs, c) ==
    [recipients |-> rs, content |-> c, pc |-> "loop", idx |-> 0, sent_count |-> 0,
     failed_count |-> 0, skipped_count |-> 0, error_summary |-> EmptyDict,
     result |-> NoResult, log |-> << >>]

ConcInit ==
    /\ MailingIdle
    /\ chan = ChanIdle
    /\ DatabaseIdle
    /\ WizardIdle
    /\ RowsIdle /\ HandlersIdle /\ FsmIdle
    /\ runs \in [RunIds -> {NewRun(rs, c) : rs \in ConcRecipientLists, c \in ConcContents}]

\* The locals of run r after a position was counted as failed under key.
Failed(st, key, answer) ==
    [st EXCEPT !.failed_count = @ + 1,
               !.error_summary = _update_error_summary(@, key),
               !.log = Append(@, answer),
               !.pc = "loop"]

Sent(st, answer) ==
    [st EXCEPT !.sent_count = @ + 1, !.log = Append(@, answer)]

ConcOthersIdle == UNCHANGED <<Mailing, chan, Database, Wizard, Rows, Handlers, fsm>>

\* Next iteration of run r, up to its first await (or to the end of the
\* iteration when nothing is awaited).
ConcStart(r) ==
    /\ runs[r].pc = "loop"
    /\ runs[r].idx < Len(runs[r].recipients)
    /\ LET st == [runs[r] EXCEPT !.idx = @ + 1]
           d == Dispatch(st.recipients[st.idx], st.content)
       IN runs' = [runs EXCEPT ![r] =
                     IF d.kind = "call" THEN [st EXCEPT !.pc = "send"]
                     ELSE IF d.kind = "raise" THEN Failed(st, "unexpected", "ValueError")
                     ELSE [st EXCEPT !.skipped_count = @ + 1, !.log = Append(@, "skipped")]]
    /\ ConcOthersIdle

ConcSendOk(r) ==
    /\ runs[r].pc = "send"
    /\ runs' = [runs EXCEPT ![r] =
                  [Sent(@, "ok") EXCEPT !.pc = IF runs[r].idx < Len(runs[r].recipients)
                                               THEN "rate_sleep" ELSE "loop"]]
    /\ ConcOthersIdle

ConcRateSleepDone(r) ==
    /\ runs[r].pc = "rate_sleep"
    /\ runs' = [runs EXCEPT ![r].pc = "loop"]
    /\ ConcOthersIdle

SignalKey(sig, code) ==
    CASE sig = "Forbidden" -> "blocked"
      [] sig = "ApiError" -> ApiErrorKey(code)
      [] sig = "Unexpected" -> "unexpected"

\* Mutant: error_summary is one module-level dict shared by all invocations.
ConcSendFails_Shared(r, sig, code) ==
    /\ runs[r].pc = "send"
    /\ sig \in {"Forbidden", "ApiError", "Unexpected"}
    /\ runs' = [q \in RunIds |->
                  IF q = r THEN Failed(runs[q], SignalKey(sig, code), SignalKey(sig, code))
                  ELSE [runs[q] EXCEPT !.error_summary =
                                           _update_error_summary(@, SignalKey(sig, code))]]
    /\ ConcOthersIdle

\* The first call of run r raises Forbidden, ApiError or another Exception.
ConcSendFails(r, sig, code) ==
    /\ runs[r].pc = "send"
    /\ sig \in {"Forbidden", "ApiError", "Unexpected"}
    /\ runs' = [runs EXCEPT ![r] = Failed(@, SignalKey(sig, code), SignalKey(sig, code))]
    /\ ConcOthersIdle

ConcSendRetryAfter(r) ==
    /\ runs[r].pc = "send"
    /\ runs' = [runs EXCEPT ![r].pc = "retry_sleep"]
    /\ ConcOthersIdle

ConcRetrySleepDone(r) ==
    /\ runs[r].pc = "retry_sleep"
    /\ runs' = [runs EXCEPT ![r].pc = "retry_send"]
    /\ ConcOthersIdle

ConcRetryOk(r) ==
    /\ runs[r].pc = "retry_send"
    /\ runs' = [runs EXCEPT ![r] = [Sent(@, "retry_ok") EXCEPT !.pc = "loop"]]
    /\ ConcOthersIdle

ConcRetryFails(r) ==
    /\ runs[r].pc = "retry_send"
    /\ runs' = [runs EXCEPT ![r] = Failed(@, "retry_failed", "retry_failed")]
    /\ ConcOthersIdle

ConcReturn(r) ==
    /\ runs[r].pc = "loop"
    /\ runs[r].idx = Len(runs[r].recipients)
    /\ runs' = [runs EXCEPT ![r].pc = "done",
                            ![r].result = [total_recipients |-> Len(runs[r].recipients),
                                           sent_count |-> runs[r].sent_count,
                                           failed_count |-> runs[r].failed_count,
                                           skipped_count |-> runs[r].skipped_count,
                                           error_summary |-> runs[r].error_summary]]
    /\ ConcOthersIdle

ConcNext ==
    \E r \in RunIds :
        \/ ConcStart(r)
        \/ ConcSendOk(r)
        \/ ConcRateSleepDone(r)
        \/ \E sig \in {"Forbidden", "ApiError", "Unexpected"}, code \in ApiCodes : ConcSendFails(r, sig, code)
        \/ ConcSendRetryAfter(r)
        \/ ConcRetrySleepDone(r)
        \/ ConcRetryOk(r)
        \/ ConcRetryFails(r)
        \/ ConcReturn(r)

SpecConc == ConcInit /\ [][ConcNext]_vars

-----------------------------------------------------------------------------
(* Giveaway rows in PostgreSQL.  Every handler opens its own session with    *)
(* get_session(): one transaction at the engine's default isolation level    *)
(* (READ COMMITTED), committed when the block is left, rolled back on an     *)
(* exception.  A statement sees the rows committed when it starts and the    *)
(* transaction's own writes; an UPDATE locks the rows it changes until the   *)
(* transaction ends, and waits for a row another transaction has locked.     *)

Admins == {1, 2}

MaxGiveaways == 3

TxIdle == [pc |-> "idle", snap |-> {}, off |-> {}, ins |-> 0, target |-> 0]

Active(rows) == {i \in DOMAIN rows : rows[i]}

\* Rows locked by a transaction other than a's.
LockedByOther(a) == UNION {tx[b].off : b \in DOMAIN tx \ {a}}

Inserting == Cardinality({a \in DOMAIN tx : tx[a].pc \in {"deactivate", "create"}})

OutsideDatabase == <<Mailing, chan, runs, Wizard, Rows, Handlers, fsm>>

DbInit ==
    /\ MailingIdle
    /\ chan = ChanIdle
    /\ runs = << >>
    /\ WizardIdle
    /\ RowsIdle /\ HandlersIdle /\ FsmIdle
    /\ giveaways = << >>
    /\ tx = [a \in Admins |-> TxIdle]

\* confirm_creation enters get_session() and issues the UPDATE of
\* deactivate_all_giveaways: the statement takes its snapshot.
ConfirmCreation(a) ==
    /\ tx[a].pc = "idle"
    /\ Len(giveaways) + Inserting + Cardinality({b \in Admins : tx[b].ins = 1}) < MaxGiveaways
    /\ tx' = [tx EXCEPT ![a] = [TxIdle EXCEPT !.pc = "deactivate", !.snap = Active(giveaways)]]
    /\ UNCHANGED <<giveaways, OutsideDatabase>>

\* UPDATE giveaways SET is_active = false WHERE is_active: every row of the
\* snapshot that is still active in its latest committed version is locked
\* and rewritten; the statement waits while another transaction holds one.
DeactivateAll(a) ==
    /\ tx[a].pc = "deactivate"
    /\ tx[a].snap \cap LockedByOther(a) = {}
    /\ tx' = [tx EXCEPT ![a].off = tx[a].snap \cap Active(giveaways), ![a].pc = "create"]
    /\ UNCHANGED <<giveaways, OutsideDatabase>>

\* create_giveaway: INSERT of a row with is_active = true, flushed.
CreateGiveaway(a) ==
    /\ tx[a].pc = "create"
    /\ tx' = [tx EXCEPT ![a].ins = 1, ![a].pc = "commit"]
    /\ UNCHANGED <<giveaways, OutsideDatabase>>

\* confirm_end_giveaway enters get_session() and end_giveaway reads the row
\* whose id the FSM data holds.
EndGiveaway(a, giveaway_id) ==
    /\ tx[a].pc = "idle"
    /\ giveaway_id \in DOMAIN giveaways
    /\ tx' = [tx EXCEPT ![a] = [TxIdle EXCEPT !.pc = "end_flush", !.target = giveaway_id]]
    /\ UNCHANGED <<giveaways, OutsideDatabase>>

\* end_giveaway: is_active = False and ended_at are flushed: UPDATE of that row.
EndFlush(a) ==
    /\ tx[a].pc = "end_flush"
    /\ tx[a].target \notin LockedByOther(a)
    /\ tx' = [tx EXCEPT ![a].off = {tx[a].target}, ![a].pc = "commit"]
    /\ UNCHANGED <<giveaways, OutsideDatabase>>

\* Leaving get_session(): session.commit() publishes the transaction's writes
\* and releases its locks.
Commit(a) ==
    /\ tx[a].pc = "commit"
    /\ LET kept == [i \in DOMAIN giveaways |-> giveaways[i] /\ i \notin tx[a].off]
       IN giveaways' = IF tx[a].ins = 1 THEN Append(kept, TRUE) ELSE kept
    /\ tx' = [tx EXCEPT ![a] = TxIdle]
    /\ UNCHANGED OutsideDatabase

\* An exception inside get_session(): session.rollback() drops the writes.
Rollback(a) ==
    /\ tx[a].pc \in {"deactivate", "create", "end_flush", "commit"}
    /\ tx' = [tx EXCEPT ![a] = TxIdle]
    /\ UNCHANGED <<giveaways, OutsideDatabase>>

DbNext ==
    \E a \in Admins :
        \/ ConfirmCreation(a)
        \/ DeactivateAll(a)
        \/ CreateGiveaway(a)
        \/ \E giveaway_id \in 1..MaxGiveaways : EndGiveaway(a, giveaway_id)
        \/ EndFlush(a)
        \/ Commit(a)
        \/ Rollback(a)

SpecDb == DbInit /\ [][DbNext]_vars

-----------------------------------------------------------------------------
(* One run of the broadcast wizard, from the preview on.  The dispatcher     *)
(* polls without event isolation: every update is handled in a task of its   *)
(* own, and a 'preview:confirm' callback is routed to confirm_broadcast      *)
(* whenever the stored FSM state is BroadcastStates.confirm.                 *)

Tasks == {1, 2}

StoredUsers == {{}, {1}, {1, 2}}

TaskIdle == [pc |-> "idle", user_ids |-> << >>, pos |-> 0, invoked |-> FALSE]

\* The rows of select(User.user_id), in ascending order.
RECURSIVE AsList(_)
AsList(S) ==
    IF S = {} THEN << >>
    ELSE LET m == CHOOSE x \in S : \A y \in S : x <= y
         IN <<m>> \o AsList(S \ {m})

OutsideWizard == <<Mailing, chan, runs, Database, Rows, Handlers, fsm>>

WizardInit ==
    /\ MailingIdle
    /\ chan = ChanIdle
    /\ runs = << >>
    /\ DatabaseIdle
    /\ RowsIdle /\ HandlersIdle /\ FsmIdle
    /\ fsm_state = "confirm"
    /\ tasks = [h \in Tasks |-> TaskIdle]
    /\ \E S \in StoredUsers : received = [u \in S |-> 0]

\* A 'preview:confirm' callback passes the filter and a handler task starts.
PressConfirm(h) ==
    /\ tasks[h].pc = "idle"
    /\ fsm_state = "confirm"
    /\ tasks' = [tasks EXCEPT ![h].pc = "get_data"]
    /\ UNCHANGED <<fsm_state, received, OutsideWizard>>

\* data = await state.get_data()
GetData(h) ==
    /\ tasks[h].pc = "get_data"
    /\ tasks' = [tasks EXCEPT ![h].pc = "notify"]
    /\ UNCHANGED <<fsm_state, received, OutsideWizard>>

\* edit_text("Начинаю рассылку...") and callback.answer()
Notify(h) ==
    /\ tasks[h].pc = "notify"
    /\ tasks' = [tasks EXCEPT ![h].pc = "query"]
    /\ UNCHANGED <<fsm_state, received, OutsideWizard>>

\* get_all_user_ids returns nothing: the state is cleared and the handler returns.
NoUsers(h) ==
    /\ tasks[h].pc = "query"
    /\ DOMAIN received = {}
    /\ fsm_state' = None
    /\ tasks' = [tasks EXCEPT ![h].pc = "done"]
    /\ UNCHANGED <<received, OutsideWizard>>

\* get_all_user_ids returns the stored users and send_mass_message is called.
StartBroadcast(h) ==
    /\ tasks[h].pc = "query"
    /\ DOMAIN received # {}
    /\ tasks' = [tasks EXCEPT ![h].pc = "send", ![h].user_ids = AsList(DOMAIN received),
                              ![h].invoked = TRUE]
    /\ UNCHANGED <<fsm_state, received, OutsideWizard>>

\* send_mass_message handles its next recipient: the message arrives or not.
Deliver(h, ok) ==
    /\ tasks[h].pc = "send"
    /\ tasks[h].pos < Len(tasks[h].user_ids)
    /\ tasks' = [tasks EXCEPT ![h].pos = @ + 1]
    /\ received' = IF ok THEN [received EXCEPT ![tasks[h].user_ids[tasks[h].pos + 1]] = @ + 1]
                   ELSE received
    /\ UNCHANGED <<fsm_state, OutsideWizard>>

\* send_mass_message returns and the result text is shown.
BroadcastReturns(h) ==
    /\ tasks[h].pc = "send"
    /\ tasks[h].pos = Len(tasks[h].user_ids)
    /\ tasks' = [tasks EXCEPT ![h].pc = "clear"]
    /\ UNCHANGED <<fsm_state, received, OutsideWizard>>

\* await state.clear(), the last statement of the handler.
ClearState(h) ==
    /\ tasks[h].pc = "clear"
    /\ fsm_state' = None
    /\ tasks' = [tasks EXCEPT ![h].pc = "done"]
    /\ UNCHANGED <<received, OutsideWizard>>

WizardNext ==
    \E h \in Tasks :
        \/ PressConfirm(h)
        \/ GetData(h)
        \/ Notify(h)
        \/ NoUsers(h)
        \/ StartBroadcast(h)
        \/ \E ok \in BOOLEAN : Deliver(h, ok)
        \/ BroadcastReturns(h)
        \/ ClearState(h)

SpecWizard == WizardInit /\ [][WizardNext]_vars

-----------------------------------------------------------------------------
(* /start: start_handler.  Every task runs the handler once for one message, *)
(* inside one get_session() transaction; the handlers of two messages run as *)
(* separate tasks and interleave at every await.  The unique index           *)
(* ix_participants_giveaway_user and the primary key of users are enforced   *)
(* by the database when a row is flushed: an INSERT waits for an uncommitted *)
(* row with the same key and fails when that row is committed.  The username *)
(* of a known user is taken as unchanged, so create_or_update_user writes    *)
(* only for a new user.                                                      *)

StartTasks == {1, 2}

StartUsers == {1, 2}

StartIdle ==
    [pc |-> "idle", user_id |-> 0, is_subscribed |-> "None", giveaway |-> 0,
     already_participating |-> "None", new_user |-> FALSE, new_participant |-> FALSE,
     conflict |-> FALSE, added |-> FALSE, replies |-> << >>,
     found |-> "None", active_at_commit |-> "None"]

Row(giveaway_id, uid) == [giveaway_id |-> giveaway_id, user_id |-> uid]

Has(rows, r) == \E i \in DOMAIN rows : rows[i] = r

\* Another session holds an uncommitted users row for uid.
UserPending(h, uid) ==
    \E o \in DOMAIN starts \ {h} : starts[o].new_user /\ starts[o].user_id = uid

\* Another session holds an uncommitted participants row with the same key.
ParticipantPending(h, giveaway_id, uid) ==
    \E o \in DOMAIN starts \ {h} :
        starts[o].new_participant /\ starts[o].giveaway = giveaway_id /\ starts[o].user_id = uid

Answer(st, message) == [st EXCEPT !.replies = Append(@, message)]

\* except Exception of start_handler, after get_session() rolled back.
StartFailed(st) ==
    [Answer(st, "errors.generic") EXCEPT !.pc = "done", !.new_user = FALSE, !.new_participant = FALSE]

OutsideStart == <<Mailing, chan, runs, Wizard, winners, selects, report, audit, fsm>>

StartInit ==
    /\ MailingIdle
    /\ chan = ChanIdle
    /\ runs = << >>
    /\ WizardIdle
    /\ FsmIdle
    /\ giveaways = <<TRUE>>
    /\ tx = [a \in Admins |-> TxIdle]
    /\ users = {1}
    /\ participants = << >>
    /\ winners = << >>
    /\ starts = [h \in StartTasks |-> StartIdle]
    /\ selects = << >> /\ report = << >> /\ audit = {}

\* A /start message of user uid arrives.
StartHandler(h, uid) ==
    /\ starts[h].pc = "idle"
    /\ starts' = [starts EXCEPT ![h] = [StartIdle EXCEPT !.pc = "get_user", !.user_id = uid]]
    /\ UNCHANGED <<users, participants, Database, OutsideStart>>

\* create_or_update_user: get_user
GetUser(h) ==
    /\ starts[h].pc = "get_user"
    /\ starts' = [starts EXCEPT ![h].pc =
                     IF starts[h].user_id \in users THEN "subscription" ELSE "insert_user"]
    /\ UNCHANGED <<users, participants, Database, OutsideStart>>

\* create_or_update_user: session.add(user); flush
InsertUser(h) ==
    /\ starts[h].pc = "insert_user"
    /\ ~UserPending(h, starts[h].user_id)
    /\ starts' = [starts EXCEPT ![h] =
                     IF starts[h].user_id \in users THEN StartFailed(@)
                     ELSE [@ EXCEPT !.new_user = TRUE, !.pc = "subscription"]]
    /\ UNCHANGED <<users, participants, Database, OutsideStart>>

\* Mutant: the handler goes on whatever check_subscription returned.
CheckSubscription_Ignored(h, subscribed) ==
    /\ starts[h].pc = "subscription"
    /\ starts' = [starts EXCEPT ![h] =
                     [@ EXCEPT !.is_subscribed = IF subscribed THEN "True" ELSE "False",
                               !.pc = "get_active"]]
    /\ UNCHANGED <<users, participants, Database, OutsideStart>>

\* check_subscription returns; an unsubscribed user gets user.not_subscribed.
CheckSubscription(h, subscribed) ==
    /\ starts[h].pc = "subscription"
    /\ starts' = [starts EXCEPT ![h] =
                     IF subscribed
                     THEN [@ EXCEPT !.is_subscribed = "True", !.pc = "get_active"]
                     ELSE [Answer(@, "user.not_subscribed") EXCEPT
                               !.is_subscribed = "False", !.pc = "commit"]]
    /\ UNCHANGED <<users, participants, Database, OutsideStart>>

\* get_active_giveaway finds no row.
NoActiveGiveaway(h) ==
    /\ starts[h].pc = "get_active"
    /\ Active(giveaways) = {}
    /\ starts' = [starts EXCEPT ![h] =
                     [Answer(@, "user.no_active_giveaway") EXCEPT !.found = "False", !.pc = "commit"]]
    /\ UNCHANGED <<users, participants, Database, OutsideStart>>

\* get_active_giveaway returns an active row (LIMIT 1: any of them).
FoundActiveGiveaway(h, giveaway_id) ==
    /\ starts[h].pc = "get_active"
    /\ giveaway_id \in Active(giveaways)
    /\ starts' = [starts EXCEPT ![h].giveaway = giveaway_id, ![h].found = "True", ![h].pc = "check"]
    /\ UNCHANGED <<users, participants, Database, OutsideStart>>

\* check_participation reads the committed rows.
CheckParticipation(h) ==
    /\ starts[h].pc = "check"
    /\ starts' = [starts EXCEPT ![h] =
                     IF Has(participants, Row(starts[h].giveaway, starts[h].user_id))
                     THEN [Answer(@, "user.already_participating") EXCEPT
                               !.already_participating = "True", !.pc = "commit"]
                     ELSE [@ EXCEPT !.already_participating = "False", !.pc = "add"]]
    /\ UNCHANGED <<users, participants, Database, OutsideStart>>

\* Mutant: participants has no unique index on (giveaway_id, user_id).
AddParticipant_NoUniqueIndex(h) ==
    /\ starts[h].pc = "add"
    /\ starts' = [starts EXCEPT ![h].new_participant = TRUE, ![h].pc = "confirm"]
    /\ UNCHANGED <<users, participants, Database, OutsideStart>>

\* add_participant: session.add(participant); flush
AddParticipant(h) ==
    /\ starts[h].pc = "add"
    /\ ~ParticipantPending(h, starts[h].giveaway, starts[h].user_id)
    /\ starts' = [starts EXCEPT ![h] =
                     IF Has(participants, Row(starts[h].giveaway, starts[h].user_id))
                     THEN [StartFailed(@) EXCEPT !.conflict = TRUE]
                     ELSE [@ EXCEPT !.new_participant = TRUE, !.pc = "confirm"]]
    /\ UNCHANGED <<users, participants, Database, OutsideStart>>

\* message.answer(user.participation_confirmed)
ConfirmParticipation(h) ==
    /\ starts[h].pc = "confirm"
    /\ starts' = [starts EXCEPT ![h] = [Answer(@, "user.participation_confirmed") EXCEPT !.pc = "commit"]]
    /\ UNCHANGED <<users, participants, Database, OutsideStart>>

\* Leaving get_session(), by return or at the end of the block: commit.
StartCommit(h) ==
    /\ starts[h].pc = "commit"
    /\ users' = IF starts[h].new_user THEN users \cup {starts[h].user_id} ELSE users
    /\ participants' = IF starts[h].new_participant
                       THEN Append(participants, Row(starts[h].giveaway, starts[h].user_id))
                       ELSE participants
    /\ starts' = [starts EXCEPT ![h].pc = "done", ![h].added = starts[h].new_participant,
                                ![h].new_user = FALSE, ![h].new_participant = FALSE,
                                ![h].active_at_commit =
                                    IF ~starts[h].new_participant THEN "None"
                                    ELSE IF giveaways[starts[h].giveaway] THEN "True" ELSE "False"]
    /\ UNCHANGED <<Database, OutsideStart>>

\* A database or transport call of the handler raises: rollback, errors.generic.
StartFails(h) ==
    /\ starts[h].pc \in {"get_user", "insert_user", "get_active", "check", "add", "confirm", "commit"}
    /\ starts' = [starts EXCEPT ![h] = StartFailed(@)]
    /\ UNCHANGED <<users, participants, Database, OutsideStart>>

StartNext ==
    \/ \E h \in StartTasks :
        \/ \E uid \in StartUsers : StartHandler(h, uid)
        \/ GetUser(h)
        \/ InsertUser(h)
        \/ \E subscribed \in BOOLEAN : CheckSubscription(h, subscribed)
        \/ NoActiveGiveaway(h)
        \/ \E giveaway_id \in 1..MaxGiveaways : FoundActiveGiveaway(h, giveaway_id)
        \/ CheckParticipation(h)
        \/ AddParticipant(h)
        \/ ConfirmParticipation(h)
        \/ StartCommit(h)
        \/ StartFails(h)
    \/ \E a \in Admins :
        \/ \E giveaway_id \in 1..MaxGiveaways : EndGiveaway(a, giveaway_id)
        \/ EndFlush(a)
        \/ Commit(a)

SpecStart == StartInit /\ [][StartNext]_vars

-----------------------------------------------------------------------------
(* The end-giveaway wizard of winners.py, one run per admin: the admin opens *)
(* it on the active giveaway, confirms the end, and has the winners drawn.   *)
(* The FSM storage is keyed by the admin; the giveaway id travels in the FSM *)
(* data.  select_winners_handler runs in one get_session() transaction.      *)

NoData ==
    [giveaway_id |-> 0, broadcast_type |-> None, text |-> None,
     media_file_id |-> None, media_type |-> None]

FsmClear == [state |-> None, data |-> NoData]

MaxWinners == 2

ParticipantSets == {{}, {1}, {1, 2}, {1, 2, 3}}

SelectIdle ==
    [pc |-> "idle", giveaway_id |-> 0, num_winners |-> 0, seen |-> {}, created |-> {},
     pending |-> {}, outcome |-> "None"]

Min(a, b) == IF a <= b THEN a ELSE b

WinnerUsers(giveaway_id) ==
    {winners[i].user_id : i \in {j \in DOMAIN winners : winners[j].giveaway_id = giveaway_id}}

ParticipantUsers(giveaway_id) ==
    {participants[i].user_id : i \in {j \in DOMAIN participants : participants[j].giveaway_id = giveaway_id}}

\* Another session holds an uncommitted winners row with one of these keys.
WinnerPending(a, giveaway_id, uids) ==
    \E o \in DOMAIN selects \ {a} :
        selects[o].giveaway_id = giveaway_id /\ selects[o].pending \cap uids # {}

OutsideSelect == <<Mailing, chan, runs, Wizard, tx, users, participants, starts, report, audit>>

SelectInit ==
    /\ MailingIdle
    /\ chan = ChanIdle
    /\ runs = << >>
    /\ WizardIdle
    /\ giveaways = <<TRUE>>
    /\ tx = << >>
    /\ users = {}
    /\ \E P \in ParticipantSets : participants = [i \in 1..Cardinality(P) |-> Row(1, AsList(P)[i])]
    /\ winners = << >>
    /\ starts = << >> /\ report = << >> /\ audit = {}
    /\ fsm = [a \in Admins |-> FsmClear]
    /\ \E k \in 1..MaxWinners : selects = [a \in Admins |-> [SelectIdle EXCEPT !.num_winners = k]]

\* start_complete_giveaway: 'admin:complete_giveaway' with an active giveaway.
StartCompleteGiveaway(a, giveaway_id) ==
    /\ selects[a].pc = "idle"
    /\ fsm[a].state = None
    /\ giveaway_id \in Active(giveaways)
    /\ fsm' = [fsm EXCEPT ![a] = [state |-> "confirm_end",
                                  data |-> [NoData EXCEPT !.giveaway_id = giveaway_id]]]
    /\ UNCHANGED <<giveaways, winners, selects, OutsideSelect>>

\* confirm_end_giveaway: 'giveaway:end_confirm'; end_giveaway is committed.
ConfirmEndGiveaway(a) ==
    /\ fsm[a].state = "confirm_end"
    /\ giveaways' = [giveaways EXCEPT ![fsm[a].data.giveaway_id] = FALSE]
    /\ fsm' = [fsm EXCEPT ![a].state = "select_winners"]
    /\ UNCHANGED <<winners, selects, OutsideSelect>>

\* select_winners_handler: 'winners:select' passes the filter; get_giveaway.
SelectWinnersHandler(a) ==
    /\ fsm[a].state = "select_winners"
    /\ selects[a].pc = "idle"
    /\ selects' = [selects EXCEPT ![a].pc = "get_participants",
                                  ![a].giveaway_id = fsm[a].data.giveaway_id]
    /\ UNCHANGED <<giveaways, winners, fsm, OutsideSelect>>

\* select_winners: get_participants returns nothing: NoParticipantsError.
NoParticipants(a) ==
    /\ selects[a].pc = "get_participants"
    /\ ParticipantUsers(selects[a].giveaway_id) = {}
    /\ selects' = [selects EXCEPT ![a].outcome = "NoParticipantsError", ![a].pc = "commit"]
    /\ fsm' = [fsm EXCEPT ![a] = FsmClear]
    /\ UNCHANGED <<giveaways, winners, OutsideSelect>>

\* select_winners: get_participants returns the participants.
GetParticipants(a) ==
    /\ selects[a].pc = "get_participants"
    /\ ParticipantUsers(selects[a].giveaway_id) # {}
    /\ selects' = [selects EXCEPT ![a].seen = ParticipantUsers(selects[a].giveaway_id),
                                  ![a].pc = "sample"]
    /\ UNCHANGED <<giveaways, winners, fsm, OutsideSelect>>

\* select_winners: random.sample picks W; add_winners flushes one row each.
\* The unique index ix_winners_giveaway_user rejects a row that exists.
AddWinners(a, W) ==
    /\ selects[a].pc = "sample"
    /\ W \subseteq selects[a].seen
    /\ Cardinality(W) = Min(selects[a].num_winners, Cardinality(selects[a].seen))
    /\ ~WinnerPending(a, selects[a].giveaway_id, W)
    /\ IF W \cap WinnerUsers(selects[a].giveaway_id) # {}
       THEN /\ selects' = [selects EXCEPT ![a].outcome = "IntegrityError", ![a].pc = "done"]
            /\ fsm' = [fsm EXCEPT ![a] = FsmClear]
       ELSE /\ selects' = [selects EXCEPT ![a].outcome = "returned", ![a].created = W,
                                          ![a].pending = W, ![a].pc = "show"]
            /\ fsm' = fsm
    /\ UNCHANGED <<giveaways, winners, OutsideSelect>>

\* The winners are shown and the wizard asks where to publish.
ShowWinners(a) ==
    /\ selects[a].pc = "show"
    /\ selects' = [selects EXCEPT ![a].pc = "commit"]
    /\ fsm' = [fsm EXCEPT ![a].state = "select_publish_target"]
    /\ UNCHANGED <<giveaways, winners, OutsideSelect>>

\* Leaving get_session(): commit.
SelectCommit(a) ==
    /\ selects[a].pc = "commit"
    /\ winners' = winners \o [i \in 1..Cardinality(selects[a].pending) |->
                                 Row(selects[a].giveaway_id, AsList(selects[a].pending)[i])]
    /\ selects' = [selects EXCEPT ![a].pending = {}, ![a].pc = "done"]
    /\ UNCHANGED <<giveaways, fsm, OutsideSelect>>

\* Showing the winners or the commit raises: rollback, errors.generic, state.clear().
SelectFails(a) ==
    /\ selects[a].pc \in {"show", "commit"}
    /\ selects' = [selects EXCEPT ![a].pending = {}, ![a].pc = "done"]
    /\ fsm' = [fsm EXCEPT ![a] = FsmClear]
    /\ UNCHANGED <<giveaways, winners, OutsideSelect>>

SelectNext ==
    \E a \in Admins :
        \/ \E giveaway_id \in 1..MaxGiveaways : StartCompleteGiveaway(a, giveaway_id)
        \/ ConfirmEndGiveaway(a)
        \/ SelectWinnersHandler(a)
        \/ NoParticipants(a)
        \/ GetParticipants(a)
        \/ \E W \in SUBSET UNION ParticipantSets : AddWinners(a, W)
        \/ ShowWinners(a)
        \/ SelectCommit(a)
        \/ SelectFails(a)

SpecSelect == SelectInit /\ [][SelectNext]_vars

-----------------------------------------------------------------------------
(* FSM data of one admin across wizards.  set_state and update_data keep the *)
(* keys already stored; only state.clear() empties the data.  The steps of   *)
(* the giveaway wizard before the media upload store keys no broadcast       *)
(* reads, and are taken together.                                            *)

Admin == 1

UploadKinds == {"photo", "video"}

Captions == {"", "cap"}

NoBroadcast == [confirmed |-> FALSE, broadcast_type |-> None, content |-> MkContent(None, None, None, None)]

OutsideData == <<Mailing, chan, runs, tx, Wizard, Rows, starts, selects>>

DataInit ==
    /\ MailingIdle
    /\ chan = ChanIdle
    /\ runs = << >>
    /\ DatabaseIdle
    /\ WizardIdle
    /\ RowsIdle
    /\ starts = << >> /\ selects = << >> /\ audit = {}
    /\ fsm = [a \in {Admin} |-> FsmClear]
    /\ report = NoBroadcast

SetState(s, new_state) == fsm' = [fsm EXCEPT ![s].state = new_state]

\* 'admin:broadcast', in any state
start_broadcast(s) ==
    /\ SetState(s, "BroadcastStates.select_type")
    /\ UNCHANGED <<report, audit, giveaways, OutsideData>>

\* 'broadcast:text'
select_text_broadcast(s) ==
    /\ fsm[s].state = "BroadcastStates.select_type"
    /\ fsm' = [fsm EXCEPT ![s].data.broadcast_type = "text",
                          ![s].state = "BroadcastStates.enter_text"]
    /\ UNCHANGED <<report, audit, giveaways, OutsideData>>

\* 'broadcast:media'
select_media_broadcast(s) ==
    /\ fsm[s].state = "BroadcastStates.select_type"
    /\ fsm' = [fsm EXCEPT ![s].data.broadcast_type = "media",
                          ![s].state = "BroadcastStates.upload_media"]
    /\ UNCHANGED <<report, audit, giveaways, OutsideData>>

\* A text message in enter_text
process_broadcast_text(s) ==
    /\ fsm[s].state = "BroadcastStates.enter_text"
    /\ fsm' = [fsm EXCEPT ![s].data.text = "hi",
                          ![s].state = "BroadcastStates.confirm"]
    /\ UNCHANGED <<report, audit, giveaways, OutsideData>>

\* A media message in upload_media (broadcast wizard)
process_broadcast_media(s, kind, caption) ==
    /\ fsm[s].state = "BroadcastStates.upload_media"
    /\ fsm' = [fsm EXCEPT ![s].data.media_file_id = "f1",
                          ![s].data.media_type = kind,
                          ![s].data.text = caption,
                          ![s].state = "BroadcastStates.confirm"]
    /\ UNCHANGED <<report, audit, giveaways, OutsideData>>

\* 'preview:edit' in confirm
edit_broadcast(s) ==
    /\ fsm[s].state = "BroadcastStates.confirm"
    /\ SetState(s, IF fsm[s].data.broadcast_type \in {None, "text"}
                THEN "BroadcastStates.enter_text" ELSE "BroadcastStates.upload_media")
    /\ UNCHANGED <<report, audit, giveaways, OutsideData>>

\* 'preview:confirm' in confirm: the content is built from the FSM data and
\* sent; state.clear() at the end.
confirm_broadcast(s) ==
    /\ fsm[s].state = "BroadcastStates.confirm"
    /\ report' = [confirmed |-> TRUE,
                  broadcast_type |-> fsm[s].data.broadcast_type,
                  content |-> MkContent(fsm[s].data.text, fsm[s].data.media_file_id,
                                        fsm[s].data.media_type, None)]
    /\ audit' = audit \cup {<<s, "broadcast">>}
    /\ fsm' = [fsm EXCEPT ![s] = FsmClear]
    /\ UNCHANGED <<giveaways, OutsideData>>

\* 'admin:create_giveaway', in any state, and the wizard steps up to the upload
start_giveaway_creation(s) ==
    /\ SetState(s, "GiveawayCreationStates.upload_media")
    /\ UNCHANGED <<report, audit, giveaways, OutsideData>>

\* A media message in upload_media (giveaway wizard)
process_media(s, kind) ==
    /\ fsm[s].state = "GiveawayCreationStates.upload_media"
    /\ fsm' = [fsm EXCEPT ![s].data.media_file_id = "f1",
                          ![s].data.media_type = kind,
                          ![s].state = "GiveawayCreationStates.preview"]
    /\ UNCHANGED <<report, audit, giveaways, OutsideData>>

\* 'nav:cancel' or 'nav:main_menu', in any state
cancel_wizard(s) ==
    /\ fsm[s] # FsmClear
    /\ fsm' = [fsm EXCEPT ![s] = FsmClear]
    /\ UNCHANGED <<report, audit, giveaways, OutsideData>>

DataNext ==
    \E s \in {Admin} :
        \/ start_broadcast(s)
        \/ select_text_broadcast(s)
        \/ select_media_broadcast(s)
        \/ process_broadcast_text(s)
        \/ \E kind \in UploadKinds, caption \in Captions : process_broadcast_media(s, kind, caption)
        \/ edit_broadcast(s)
        \/ confirm_broadcast(s)
        \/ start_giveaway_creation(s)
        \/ \E kind \in UploadKinds : process_media(s, kind)
        \/ cancel_wizard(s)

SpecData == DataInit /\ [][DataNext]_vars

-----------------------------------------------------------------------------
(* Who may operate the bot: the admin entry points and the callbacks behind  *)
(* them, for senders inside and outside the admin list.                      *)

Senders == {1, 2}

admin_ids == {Admin}

is_admin(uid) == uid \in admin_ids

ChatTypes == {"private", "group"}

AnnounceTargets == {"channel", "users", "everywhere"}

Log(s, what) == audit' = audit \cup {<<s, what>>}

AuthInit ==
    /\ MailingIdle
    /\ chan = ChanIdle
    /\ runs = << >>
    /\ giveaways \in {<<TRUE>>, <<FALSE>>}
    /\ tx = << >>
    /\ WizardIdle
    /\ RowsIdle
    /\ starts = << >> /\ selects = << >> /\ audit = {}
    /\ fsm = [s \in Senders |-> FsmClear]
    /\ report = NoBroadcast

\* '/admin'
admin_command_handler(s, chat_type) ==
    /\ IF ~is_admin(s)
         THEN Log(s, "admin.access_denied")
         ELSE IF chat_type # "private"
                THEN Log(s, "admin.use_private_chat")
                ELSE Log(s, "admin.main_menu")
    /\ UNCHANGED <<report, fsm, giveaways, OutsideData>>

\* 'admin:announce_giveaway'
announce_giveaway(s) ==
    /\ IF ~is_admin(s)
         THEN Log(s, "admin.access_denied")
         ELSE IF Active(giveaways) = {}
                THEN Log(s, "no_active_giveaway")
                ELSE Log(s, "manual_announce_keyboard")
    /\ UNCHANGED <<report, fsm, giveaways, OutsideData>>

\* 'announce_manual:<target>', in any state
handle_manual_announce(s, target) ==
    /\ IF Active(giveaways) = {}
         THEN Log(s, "giveaway_not_found")
         ELSE Log(s, "announcement")
    /\ UNCHANGED <<report, fsm, giveaways, OutsideData>>

AuthNext ==
    \E s \in Senders :
        \/ \E chat_type \in ChatTypes : admin_command_handler(s, chat_type)
        \/ announce_giveaway(s)
        \/ \E target \in AnnounceTargets : handle_manual_announce(s, target)
        \/ start_broadcast(s)
        \/ select_text_broadcast(s)
        \/ process_broadcast_text(s)
        \/ confirm_broadcast(s)
        \/ start_giveaway_creation(s)
        \/ cancel_wizard(s)

SpecAuth == AuthInit /\ [][AuthNext]_vars

-----------------------------------------------------------------------------
(* confirm_creation as a whole handler: the wizard state that admits it, the *)
(* transaction of get_session(), and the two ways the handler ends.          *)

OutsideCreate == <<Mailing, chan, runs, Wizard, Rows, starts, selects, report>>

CreateInit ==
    /\ MailingIdle
    /\ chan = ChanIdle
    /\ runs = << >>
    /\ WizardIdle
    /\ RowsIdle
    /\ starts = << >> /\ selects = << >> /\ report = << >> /\ audit = {}
    /\ giveaways = << >>
    /\ tx = [a \in Admins |-> TxIdle]
    /\ fsm = [a \in Admins |-> FsmClear]

\* The wizard up to the preview.
EnterPreview(a) ==
    /\ tx[a].pc = "idle"
    /\ fsm[a].state = None
    /\ fsm' = [fsm EXCEPT ![a].data.media_file_id = "f1",
                          ![a].data.media_type = "photo",
                          ![a].state = "GiveawayCreationStates.preview"]
    /\ UNCHANGED <<giveaways, tx, audit, OutsideCreate>>

\* 'preview:confirm' in preview: get_data, then get_session() is entered and
\* the UPDATE of deactivate_all_giveaways takes its snapshot.
confirm_creation(a) ==
    /\ fsm[a].state = "GiveawayCreationStates.preview"
    /\ tx[a].pc = "idle"
    /\ Len(giveaways) + Inserting + Cardinality({b \in Admins : tx[b].ins = 1}) < MaxGiveaways
    /\ tx' = [tx EXCEPT ![a] = [TxIdle EXCEPT !.pc = "deactivate", !.snap = Active(giveaways)]]
    /\ UNCHANGED <<giveaways, fsm, audit, OutsideCreate>>

\* An exception inside the session block, from the UPDATE on: get_session()
\* rolls the transaction back and re-raises.  The writes that are dropped are
\* logged, the latest failure of each admin.
CreationFails_KeepsDeactivation(a) ==
    /\ tx[a].pc \in {"deactivate", "create", "commit"}
    /\ giveaways' = [i \in DOMAIN giveaways |-> giveaways[i] /\ i \notin tx[a].off]
    /\ audit' = {e \in audit : e[1] # a} \cup {<<a, tx[a].off, tx[a].ins>>}
    /\ tx' = [tx EXCEPT ![a] = [TxIdle EXCEPT !.pc = "failed"]]
    /\ UNCHANGED <<fsm, OutsideCreate>>

CreationFails(a) ==
    /\ tx[a].pc \in {"deactivate", "create", "commit"}
    /\ audit' = {e \in audit : e[1] # a} \cup {<<a, tx[a].off, tx[a].ins>>}
    /\ tx' = [tx EXCEPT ![a] = [TxIdle EXCEPT !.pc = "failed"]]
    /\ UNCHANGED <<giveaways, fsm, OutsideCreate>>

\* except Exception: errors.database is shown and state.clear() runs.
ClearWizard(a) ==
    /\ tx[a].pc = "failed"
    /\ fsm' = [fsm EXCEPT ![a] = FsmClear]
    /\ tx' = [tx EXCEPT ![a] = TxIdle]
    /\ UNCHANGED <<giveaways, audit, OutsideCreate>>

\* Leaving get_session() without an exception: session.commit().
CreationCommits(a) ==
    /\ tx[a].pc = "commit"
    /\ LET kept == [i \in DOMAIN giveaways |-> giveaways[i] /\ i \notin tx[a].off]
       IN giveaways' = Append(kept, TRUE)
    /\ tx' = [tx EXCEPT ![a] = [TxIdle EXCEPT !.pc = "created", !.target = Len(giveaways) + 1]]
    /\ UNCHANGED <<fsm, audit, OutsideCreate>>

\* update_data(giveaway_id=giveaway.id), set_state(select_announce_target)
SelectAnnounceTarget(a) ==
    /\ tx[a].pc = "created"
    /\ fsm' = [fsm EXCEPT ![a].data.giveaway_id = tx[a].target,
                          ![a].state = "GiveawayCreationStates.select_announce_target"]
    /\ tx' = [tx EXCEPT ![a] = TxIdle]
    /\ UNCHANGED <<giveaways, audit, OutsideCreate>>

\* The announce target is handled, or the wizard is left: state.clear().
LeaveWizard(a) ==
    /\ tx[a].pc = "idle"
    /\ fsm[a].state = "GiveawayCreationStates.select_announce_target"
    /\ fsm' = [fsm EXCEPT ![a] = FsmClear]
    /\ UNCHANGED <<giveaways, tx, audit, OutsideCreate>>

CreateNext ==
    \E a \in Admins :
        \/ EnterPreview(a)
        \/ confirm_creation(a)
        \/ DeactivateAll(a)
        \/ CreateGiveaway(a)
        \/ CreationFails(a)
        \/ ClearWizard(a)
        \/ CreationCommits(a)
        \/ SelectAnnounceTarget(a)
        \/ LeaveWizard(a)

SpecCreate == CreateInit /\ [][CreateNext]_vars

-----------------------------------------------------------------------------
(* The number the admin is shown after results are published or a giveaway   *)
(* is announced: publish_results, handle_announce_target and                 *)
(* handle_manual_announce.                                                   *)

ReportHandlers == {"publish_results", "handle_announce_target", "handle_manual_announce"}

Targets(handler) ==
    IF handler = "publish_results"
      THEN {"channel", "admins", "users", "everywhere"}
      ELSE IF handler = "handle_announce_target"
             THEN {"skip", "channel", "users", "everywhere"}
             ELSE {"channel", "users", "everywhere"}

ReportIdle == [pc |-> "idle", handler |-> None, target |-> None, success |-> None,
               result |-> 0, sent_count |-> 0, shown |-> 0]

OutsideReport == <<Mailing, chan, runs, Database, Wizard, Rows, starts, selects, audit, fsm>>

ReportInit ==
    /\ MailingIdle
    /\ chan = ChanIdle
    /\ runs = << >>
    /\ DatabaseIdle
    /\ WizardIdle
    /\ RowsIdle
    /\ starts = << >> /\ selects = << >> /\ audit = {}
    /\ FsmIdle
    /\ report = ReportIdle

\* The callback arrives: target = callback.data.split(":")[1], sent_count = 0
HandleTarget(handler, target) ==
    /\ report.pc = "idle"
    /\ target \in Targets(handler)
    /\ report' = [ReportIdle EXCEPT !.pc = "channel", !.handler = handler, !.target = target]
    /\ UNCHANGED OutsideReport

\* 'announce:skip': no announcement and no number.
SkipAnnounce ==
    /\ report.pc = "channel"
    /\ report.target = "skip"
    /\ report' = [report EXCEPT !.pc = "skipped"]
    /\ UNCHANGED OutsideReport

\* The giveaway (or, for the results, its winners) is not in the database:
\* the handler says so and sends nothing.
NotFound ==
    /\ report.pc = "channel"
    /\ report.target # "skip"
    /\ report' = [report EXCEPT !.pc = "not_found"]
    /\ UNCHANGED OutsideReport

\* send_to_channel, for the targets that include the channel, and what each
\* handler does with its return value.
SendToChannel(success) ==
    /\ report.pc = "channel"
    /\ report.target \in {"channel", "everywhere"}
    /\ report' = [report EXCEPT
           !.success = IF success THEN "True" ELSE "False",
           !.sent_count =
               IF report.handler = "publish_results"
                 THEN IF report.target = "channel"
                        THEN IF success THEN 1 ELSE 0
                        ELSE report.sent_count
                 ELSE IF success THEN report.sent_count + 1 ELSE report.sent_count,
           !.pc = "users"]
    /\ UNCHANGED OutsideReport

\* The targets without the channel.
NoChannel ==
    /\ report.pc = "channel"
    /\ report.target \in {"admins", "users"}
    /\ report' = [report EXCEPT !.pc = "users"]
    /\ UNCHANGED OutsideReport

\* send_mass_message returns a MailingResult with sent_count = n, for the
\* targets that include a list of users.
SendMassMessage(n) ==
    /\ report.pc = "users"
    /\ report.target \in {"admins", "users", "everywhere"}
    /\ report' = [report EXCEPT
           !.result = n,
           !.sent_count =
               IF report.handler = "publish_results"
                 THEN IF report.target = "everywhere" THEN n + 1 ELSE n
                 ELSE report.sent_count + n,
           !.pc = "report"]
    /\ UNCHANGED OutsideReport

\* The target is the channel alone.
NoUsersTarget ==
    /\ report.pc = "users"
    /\ report.target = "channel"
    /\ report' = [report EXCEPT !.pc = "report"]
    /\ UNCHANGED OutsideReport

\* edit_text with the number sent
ShowSent ==
    /\ report.pc = "report"
    /\ report' = [report EXCEPT !.shown = report.sent_count, !.pc = "done"]
    /\ UNCHANGED OutsideReport

\* The handler returns; the next callback can come.
HandlerReturns ==
    /\ report.pc \in {"done", "skipped", "not_found"}
    /\ report' = ReportIdle
    /\ UNCHANGED OutsideReport

ReportNext ==
    \/ \E handler \in ReportHandlers : \E target \in Targets(handler) : HandleTarget(handler, target)
    \/ SkipAnnounce
    \/ NotFound
    \/ \E success \in BOOLEAN : SendToChannel(success)
    \/ NoChannel
    \/ \E n \in 0..MaxRecipients : SendMassMessage(n)
    \/ NoUsersTarget
    \/ ShowSent
    \/ HandlerReturns

SpecReport == ReportInit /\ [][ReportNext]_vars

-----------------------------------------------------------------------------
(* The callback 'nav:main_menu': the routers of main in their registration   *)
(* order, the handlers they register for it, and the menu that is shown.     *)

RouterOrder == <<"giveaway_wizard", "announce", "winners", "broadcast_wizard", "menu",
                 "entry", "start">>

\* The handler a router registers for callback data, without a state filter.
Registered(router, data) ==
    CASE router = "giveaway_wizard" /\ data = "nav:cancel" -> "cancel_wizard"
      [] router = "giveaway_wizard" /\ data = "nav:main_menu" -> "return_to_main_menu"
      [] router = "entry" /\ data = "nav:main_menu" -> "show_main_menu_callback"
      [] router = "entry" /\ data = "admin:close" -> "close_admin_panel"
      [] OTHER -> None

\* The dispatcher offers the update to the routers in their order; the first
\* handler whose filters pass handles it and the others never see it.
Route(data) ==
    LET hits == {i \in DOMAIN RouterOrder : Registered(RouterOrder[i], data) # None}
    IN IF hits = {} THEN None
       ELSE Registered(RouterOrder[CHOOSE i \in hits : \A j \in hits : i <= j], data)

get_admin_main_menu(has_active_giveaway) ==
    IF has_active_giveaway
    THEN <<"admin:create_giveaway", "admin:announce_giveaway", "admin:complete_giveaway",
           "admin:broadcast", "admin:status", "admin:sync_sheets", "admin:close">>
    ELSE <<"admin:create_giveaway", "admin:broadcast", "admin:status", "admin:sync_sheets",
           "admin:close">>

\* What the last 'nav:main_menu' was answered with; active is whether an
\* active giveaway existed then.
NoMenu == [to |-> 0, handler |-> None, screen |-> None, keyboard |-> << >>, active |-> FALSE]

Shown(s, handler, screen, keyboard) ==
    [to |-> s, handler |-> handler, screen |-> screen, keyboard |-> keyboard,
     active |-> Active(giveaways) # {}]

MenuInit ==
    /\ MailingIdle
    /\ chan = ChanIdle
    /\ runs = << >>
    /\ giveaways \in {<<TRUE>>, <<FALSE>>}
    /\ tx = << >>
    /\ WizardIdle
    /\ RowsIdle
    /\ starts = << >> /\ selects = << >> /\ audit = {}
    /\ fsm = [s \in Senders |-> FsmClear]
    /\ report = NoMenu

\* giveaway_wizard.return_to_main_menu: the menu with the default keyboard,
\* then state.clear().
return_to_main_menu(s) ==
    /\ report' = Shown(s, "return_to_main_menu", "admin.main_menu", get_admin_main_menu(FALSE))
    /\ fsm' = [fsm EXCEPT ![s] = FsmClear]

\* entry.show_main_menu_callback: admins only, the keyboard for the active
\* giveaway found.
show_main_menu_callback(s) ==
    /\ report' = IF ~is_admin(s)
                 THEN Shown(s, "show_main_menu_callback", "admin.access_denied", << >>)
                 ELSE Shown(s, "show_main_menu_callback", "admin.main_menu",
                            get_admin_main_menu(Active(giveaways) # {}))
    /\ UNCHANGED fsm

\* Sender s presses a button with callback data 'nav:main_menu'.
NavMainMenu(s) ==
    /\ IF Route("nav:main_menu") = "return_to_main_menu"
         THEN return_to_main_menu(s)
         ELSE show_main_menu_callback(s)
    /\ UNCHANGED <<audit, giveaways, OutsideData>>

MenuNext ==
    \E s \in Senders :
        \/ \E chat_type \in ChatTypes : admin_command_handler(s, chat_type)
        \/ start_broadcast(s)
        \/ select_text_broadcast(s)
        \/ start_giveaway_creation(s)
        \/ NavMainMenu(s)

SpecMenu == MenuInit /\ [][MenuNext]_vars

-----------------------------------------------------------------------------
(* Vocabulary of the properties *)

Positions == 1..Len(hist)

Counted(kind) == Cardinality({k \in Positions : hist[k].counted = kind})

FirstWas(sig) == Cardinality({k \in Positions : hist[k].first = sig})

RetryFailedAt(k) == hist[k].retry \in RetrySignals \cup {"ValueError"}

Succeeded(k) == hist[k].first = "ok" \/ hist[k].retry = "ok"

EmptyContent(c) == ~Truthy(c.text) /\ ~Truthy(c.media_file_id)

UnsupportedKind(c) ==
    Truthy(c.media_file_id) /\ Truthy(c.media_type) /\ c.media_type \notin SupportedMedia

InCall == pc \in {"send", "retry_send"}

-----------------------------------------------------------------------------
(* Properties *)

\* C1: a completed run returns total_recipients = sent_count + failed_count +
\* skipped_count, and total_recipients is the length of the recipient list.
C1_Accounting ==
    pc = "done" =>
        /\ result.total_recipients = result.sent_count + result.failed_count + result.skipped_count
        /\ result.total_recipients = Len(recipients)

\* C1 witness: a completed run over a duplicated id, one sent after a retry and one failed.
C1_Witness ==
    /\ pc = "done"
    /\ Len(recipients) = 2
    /\ recipients[1] = recipients[2]
    /\ \E k \in Positions : hist[k].retry = "ok"
    /\ result.failed_count = 1

\* C2: whatever the transport outcome at a position, every later position still
\* gets a transport call: the run ends only after the whole list was walked.
C2_LoopContinues ==
    pc = "done" =>
        /\ Len(hist) = Len(recipients)
        /\ \A i \in Positions : \A j \in Positions :
              (i < j /\ hist[i].calls >= 1) => hist[j].calls >= 1

\* C2 witness: the first position failed its retry, the second was still sent to.
C2_Witness ==
    /\ pc = "done"
    /\ Len(hist) = 2
    /\ hist[1].first = "RetryAfter"
    /\ hist[1].retry = "Unexpected"
    /\ hist[2].calls >= 1

\* C3: at most two transport calls per position; a second call is made exactly
\* when the first one raised RetryAfter (never after Forbidden, ApiError or
\* Unexpected, and never a third one after a RetryAfter of the retry).
C3_AtMostOneRetry ==
    \A k \in Positions :
        /\ hist[k].calls <= 2
        /\ hist[k].calls = 2 => hist[k].first = "RetryAfter"
        /\ (hist[k].first = "RetryAfter" /\ (k < idx \/ pc \in {"loop", "done"}))
              => hist[k].calls = 2

\* C3 witness: the retry itself raised RetryAfter and the position is finished
\* with two calls.
C3_Witness ==
    \E k \in Positions :
        /\ hist[k].retry = "RetryAfter"
        /\ hist[k].calls = 2
        /\ hist[k].counted = "failed"
        /\ pc = "done"

\* C4: after RetryAfter(s) the only suspension before the retry is one sleep of
\* s seconds (no rate-limit sleep), the retry starts no earlier than s later; a
\* successful retry counts the position once as sent and adds no error, so a run
\* whose every position succeeded at once or on its retry has sent_count = N.
C4_RetryAfterSleep ==
    /\ pc = "retry_send" =>
          /\ Len(trace) = 3
          /\ trace[1].ev = "call"
          /\ trace[2].ev = "retry_sleep"
          /\ trace[2].ticks = retry_after * TicksPerSecond
          /\ trace[3].ev = "call"
          /\ trace[3].ticks >= Cap(retry_after * TicksPerSecond)
    /\ pc = "retry_sleep" =>
          /\ Len(trace) = 2
          /\ trace[2].ev = "retry_sleep"
          /\ trace[2].ticks = retry_after * TicksPerSecond
    /\ \A k \in Positions : hist[k].retry = "ok" => hist[k].counted = "sent"
    /\ sent_count = Counted("sent")
    /\ (pc = "done" /\ Len(hist) = Len(recipients) /\ \A k \in Positions : Succeeded(k))
          => /\ result.sent_count = Len(recipients)
             /\ result.failed_count = 0
             /\ result.error_summary = EmptyDict

\* C4 witness: a completed run of two positions, one of them sent on its retry
\* after RetryAfter, everything sent.
C4_Witness ==
    /\ pc = "done"
    /\ Len(hist) = 2
    /\ hist[1].first = "RetryAfter"
    /\ hist[1].retry = "ok"
    /\ hist[2].first = "ok"
    /\ result.sent_count = 2

\* C5: a position whose retry failed (with any signal) is counted once as
\* failed, once under retry_failed and under no other key, and never as sent.
C5_RetryFailed ==
    /\ \A k \in Positions : RetryFailedAt(k) => hist[k].counted = "failed"
    /\ failed_count = Counted("failed")
    /\ sent_count = Cardinality({k \in Positions : Succeeded(k)})
    /\ Get(error_summary, "retry_failed") = Cardinality({k \in Positions : RetryFailedAt(k)})
    /\ Get(error_summary, "blocked") = FirstWas("Forbidden")
    /\ Get(error_summary, "api_error") + Get(error_summary, "api_error_400") = FirstWas("ApiError")
    /\ Get(error_summary, "unexpected") = FirstWas("Unexpected") + FirstWas("ValueError")

\* C5 witness: a retry that failed with Forbidden, recorded as retry_failed.
C5_Witness ==
    /\ pc = "done"
    /\ \E k \in Positions : hist[k].first = "RetryAfter" /\ hist[k].retry = "Forbidden"
    /\ result.failed_count = 1
    /\ result.error_summary = [k \in {"retry_failed"} |-> 1]

\* C6 (as claimed): from the (B+1)-th transport call on, every call starts at
\* least 1/rps after the previous call started, whatever that one's outcome.
C6_Spacing ==
    \A B \in BurstValues :
        (InCall /\ dispatches > B) => trace[Len(trace)].ticks >= Delay

\* C7: with neither text nor media every recipient is skipped; no transport
\* call and no sleep happens.
C7_EmptyContentSkips ==
    EmptyContent(content) =>
        /\ dispatches = 0
        /\ inflight = 0
        /\ pc \in {"loop", "done"}
        /\ trace = << >>
        /\ sent_count = 0
        /\ failed_count = 0
        /\ skipped_count = idx
        /\ pc = "done" => /\ result.skipped_count = Len(recipients)
                          /\ result.sent_count = 0
                          /\ result.failed_count = 0

\* C7 witness: a completed run over two recipients with empty-string text.
C7_Witness ==
    /\ EmptyContent(content)
    /\ content.text = ""
    /\ pc = "done"
    /\ result.skipped_count = 2

\* C8 (as claimed): an unsupported media kind makes the broadcast fail before
\* the loop: no position is entered, no recipient is counted as failed or
\* skipped, and a broadcast to a non-empty list returns no result.
C8_FailsFast ==
    UnsupportedKind(content) =>
        /\ failed_count = 0
        /\ skipped_count = 0
        /\ idx = 0
        /\ dispatches = 0
        /\ Len(recipients) > 0 => result = NoResult

\* C9: first attempts go out in list order, one per occurrence; a position
\* starts only when the one before it has been counted; at most one transport
\* call is in flight.
C9_Sequential ==
    /\ inflight \in {0, 1}
    /\ inflight = 1 <=> InCall
    /\ Len(hist) = idx
    /\ idx <= Len(recipients)
    /\ \A k \in Positions :
          /\ hist[k].calls >= 1 => hist[k].target = recipients[k]
          /\ k < Len(hist) => hist[k].counted # None
    /\ pc = "send" => (trace[1].call.chat_id = recipients[idx] /\ hist[idx].counted = None)

\* C9 witness: two different ids, the first retried, the second being sent to.
C9_Witness ==
    /\ Len(recipients) = 2
    /\ recipients[1] # recipients[2]
    /\ pc = "send"
    /\ idx = 2
    /\ Len(hist) = 2
    /\ hist[1].calls = 2

\* C10: Forbidden on the first attempt counts the position as failed under
\* blocked, without a retry; one Forbidden among successes gives
\* failed_count = 1, error_summary = {blocked: 1}, sent_count = N - 1.
C10_Forbidden ==
    /\ \A k \in Positions :
          hist[k].first = "Forbidden" =>
              /\ hist[k].calls = 1
              /\ hist[k].counted = "failed"
              /\ hist[k].retry = None
    /\ Get(error_summary, "blocked") = FirstWas("Forbidden")
    /\ failed_count >= FirstWas("Forbidden")
    /\ (/\ pc = "done"
        /\ FirstWas("Forbidden") = 1
        /\ \A k \in Positions : hist[k].first # "Forbidden" => Succeeded(k))
          => /\ result.failed_count = 1
             /\ result.error_summary = [k \in {"blocked"} |-> 1]
             /\ result.sent_count = Len(recipients) - 1

\* C10 witness: two recipients, the first blocked the bot, the second received.
C10_Witness ==
    /\ pc = "done"
    /\ Len(hist) = 2
    /\ hist[1].first = "Forbidden"
    /\ hist[2].first = "ok"
    /\ result.sent_count = 1

\* Content the engine accepts: text without media, or a media reference of a
\* supported kind.
ValidContent(c) ==
    \/ ~Truthy(c.media_file_id) /\ ~Truthy(c.media_type) /\ Truthy(c.text)
    \/ Truthy(c.media_file_id) /\ c.media_type \in SupportedMedia

\* C11: with valid content and every transport call succeeding, the result is
\* total = N, sent = N, failed = 0, skipped = 0, no errors, after exactly N calls.
C11_AllSucceed ==
    (pc = "done" /\ ValidContent(content) /\ \A k \in Positions : hist[k].first = "ok")
        => /\ result = [total_recipients |-> Len(recipients), sent_count |-> Len(recipients),
                        failed_count |-> 0, skipped_count |-> 0, error_summary |-> EmptyDict]
           /\ dispatches = Len(recipients)
           /\ Len(hist) = Len(recipients)

\* C11 witness: two recipients, media with caption, both calls succeeded.
C11_Witness ==
    /\ pc = "done"
    /\ Len(recipients) = 2
    /\ content.media_type = "video"
    /\ \A k \in Positions : hist[k].first = "ok"
    /\ result.sent_count = 2
    /\ dispatches = 2

ApiErrorsWith(code) ==
    Cardinality({k \in Positions : hist[k].first = "ApiError" /\ hist[k].code = code})

\* C17: a first-attempt ApiError with code c is counted under api_error_c, one
\* without a code under api_error, any other fault under unexpected; each such
\* position is counted once as failed and under that one key.
C17_ErrorKeys ==
    /\ Get(error_summary, "api_error_400") = ApiErrorsWith("400")
    /\ Get(error_summary, "api_error") = ApiErrorsWith(None)
    /\ Get(error_summary, "unexpected") = FirstWas("Unexpected") + FirstWas("ValueError")
    /\ \A k \in Positions :
          hist[k].first \in {"ApiError", "Unexpected"} =>
              /\ hist[k].counted = "failed"
              /\ hist[k].calls = 1
              /\ hist[k].retry = None
    /\ failed_count = Counted("failed")
    /\ failed_count = Get(error_summary, "api_error_400") + Get(error_summary, "api_error")
                      + Get(error_summary, "unexpected") + Get(error_summary, "blocked")
                      + Get(error_summary, "retry_failed")

\* C17 witness: one ApiError with code 400 and one without a code.
C17_Witness ==
    /\ pc = "done"
    /\ ApiErrorsWith("400") = 1
    /\ ApiErrorsWith(None) = 1
    /\ result.error_summary = [k \in {"api_error", "api_error_400"} |-> 1]
    /\ result.failed_count = 2

RECURSIVE SumCalls(_)
SumCalls(h) == IF h = << >> THEN 0 ELSE h[1].calls + SumCalls(Tail(h))

CancelSeen == trace # << >> /\ trace[Len(trace)].ev = "cancel"

\* C15: a task cancelled while suspended (in a transport call, a rate-limit
\* sleep or a RetryAfter sleep) makes no further call, returns no result, and
\* the cancellation is not counted as a failed recipient.
C15_Cancellation ==
    /\ CancelSeen => pc = "cancelled"
    /\ pc = "cancelled" =>
          /\ CancelSeen
          /\ result = NoResult
          /\ inflight = 0
          /\ ~ENABLED (Next \/ Cancel)
          /\ Len(hist) = idx
          /\ dispatches = SumCalls(hist)
          /\ failed_count = Counted("failed")
          /\ sent_count = Counted("sent")
          /\ trace[Len(trace) - 1].ev = "rate_sleep" <=> hist[idx].counted = "sent"
          /\ trace[Len(trace) - 1].ev # "rate_sleep" => hist[idx].counted = None

\* C15 witness: cancelled during the retry call of the first of two recipients.
C15_Witness ==
    /\ pc = "cancelled"
    /\ Len(recipients) = 2
    /\ idx = 1
    /\ Len(trace) = 4
    /\ trace[3].ev = "call"
    /\ dispatches = 2
    /\ failed_count = 0

Sendable(c) ==
    Truthy(c.text) \/ (Truthy(c.media_file_id) /\ c.media_type \in SupportedMedia)

\* C16: with text or supported media, when every call and sleep returns and
\* the task is not cancelled, the run ends by returning a MailingResult.
C16_Terminates == Sendable(content) => <>(pc = "done" /\ result # NoResult)

\* C16 witness: a returned run in which both recipients failed.
C16_Witness ==
    /\ pc = "done"
    /\ Sendable(content)
    /\ Len(recipients) = 2
    /\ result.failed_count = 2
    /\ result.total_recipients = 2

MediaMethods == {MediaMethod(t) : t \in SupportedMedia}

\* C18 (as claimed): every transport call is a media send, with the text as
\* caption, when the content has a media reference, and a text send otherwise;
\* the retry repeats the first call.
C18_DispatchKind ==
    /\ \A i \in 1..Len(trace) :
          trace[i].ev = "call" =>
              IF Truthy(content.media_file_id)
              THEN /\ trace[i].call.method \in MediaMethods
                   /\ trace[i].call.file = content.media_file_id
                   /\ trace[i].call.caption = (IF Truthy(content.text) THEN content.text ELSE None)
              ELSE /\ trace[i].call.method = "send_message"
                   /\ trace[i].call.text = content.text
    /\ pc = "retry_send" => trace[3].call = trace[1].call

\* C12: send_to_channel never lets an error out: it returns True exactly when
\* its transport call succeeded, False for every signal or exception, and
\* False without a call when the content has neither text nor media.
C12_ChannelResult ==
    /\ chan.pc \in {"start", "send", "done"}
    /\ chan.pc = "done" <=> chan.ret \in {"True", "False"}
    /\ chan.pc = "done" =>
          /\ chan.ret = "True" <=> (chan.outcome = "ok" /\ Len(chan.calls) = 1)
          /\ chan.outcome \in RetrySignals \cup {"ValueError"} => chan.ret = "False"
          /\ EmptyContent(chan.content) => (chan.ret = "False" /\ chan.calls = << >>)
    /\ chan.pc = "send" => ENABLED ChannelNext

\* C12 witness: the call ended with an unexpected exception and False came back.
C12_Witness ==
    /\ chan.pc = "done"
    /\ chan.outcome = "Unexpected"
    /\ chan.ret = "False"
    /\ Len(chan.calls) = 1

\* C13: send_to_channel makes at most one transport call and never sleeps,
\* also when the transport answers RetryAfter.
C13_ChannelOneCall ==
    /\ Len(chan.calls) <= 1
    /\ chan.sleeps = 0
    /\ chan.pc = "send" => Len(chan.calls) = 1
    /\ chan.outcome = "RetryAfter" => (chan.pc = "done" /\ Len(chan.calls) = 1)

\* C13 witness: RetryAfter answered the only call; the invocation is over.
C13_Witness ==
    /\ chan.pc = "done"
    /\ chan.outcome = "RetryAfter"
    /\ Len(chan.calls) = 1
    /\ chan.sleeps = 0
    /\ chan.ret = "False"

-----------------------------------------------------------------------------
(* Concurrent invocations *)

\* What send_mass_message counts, sequentially, for a list of transport answers.
RECURSIVE Tally(_)
Tally(log) ==
    IF log = << >>
    THEN [sent_count |-> 0, failed_count |-> 0, skipped_count |-> 0, error_summary |-> EmptyDict]
    ELSE LET t == Tally(SubSeq(log, 1, Len(log) - 1))
             a == log[Len(log)]
         IN CASE a \in {"ok", "retry_ok"} -> [t EXCEPT !.sent_count = @ + 1]
              [] a = "skipped" -> [t EXCEPT !.skipped_count = @ + 1]
              [] a = "ValueError" ->
                    [t EXCEPT !.failed_count = @ + 1,
                              !.error_summary = _update_error_summary(@, "unexpected")]
              [] OTHER ->
                    [t EXCEPT !.failed_count = @ + 1,
                              !.error_summary = _update_error_summary(@, a)]

\* C14: when two send_mass_message invocations interleave on one event loop,
\* the counters and the error histogram of each invocation are, at every
\* point, exactly what its own transport answers give, and the MailingResult
\* it returns is the one it would return running alone on those answers:
\* nothing of one invocation is changed by the other.
C14_Independent ==
    \A r \in DOMAIN runs :
        LET t == Tally(runs[r].log)
        IN /\ runs[r].sent_count = t.sent_count
           /\ runs[r].failed_count = t.failed_count
           /\ runs[r].skipped_count = t.skipped_count
           /\ runs[r].error_summary = t.error_summary
           /\ runs[r].pc = "done" =>
                 /\ Len(runs[r].log) = Len(runs[r].recipients)
                 /\ runs[r].result = [total_recipients |-> Len(runs[r].recipients),
                                      sent_count |-> t.sent_count,
                                      failed_count |-> t.failed_count,
                                      skipped_count |-> t.skipped_count,
                                      error_summary |-> t.error_summary]

\* Both invocations are in the middle of their lists at once: one has sent
\* its first message and sleeps, the other has one blocked recipient and is
\* inside its second call.
C14_Witness ==
    /\ DOMAIN runs = RunIds
    /\ runs[1].pc = "rate_sleep" /\ runs[1].sent_count = 1 /\ runs[1].failed_count = 0
    /\ runs[2].pc = "send" /\ runs[2].idx = 2 /\ runs[2].sent_count = 0
    /\ runs[2].error_summary = [k \in {"blocked"} |-> 1]

-----------------------------------------------------------------------------
(* Giveaways *)

\* C19: after any interleaving of giveaway creations through
\* confirm_creation and endings through end_giveaway, two admins confirming
\* at once included, at most one committed giveaway row has is_active = true.
C19_OneActive == Cardinality(Active(giveaways)) <= 1

-----------------------------------------------------------------------------
(* Broadcast wizard *)

\* C20: one run of the broadcast wizard invokes send_mass_message at most
\* once, so no stored user receives the broadcast twice: a second
\* 'preview:confirm' callback that arrives while the first broadcast is still
\* running starts no second broadcast.
C20_OneBroadcast ==
    /\ Cardinality({h \in DOMAIN tasks : tasks[h].invoked}) <= 1
    /\ \A u \in DOMAIN received : received[u] <= 1

-----------------------------------------------------------------------------
(* Error histogram *)

RECURSIVE SumCounts(_)
SumCounts(summary) ==
    IF DOMAIN summary = {} THEN 0
    ELSE LET k == CHOOSE x \in DOMAIN summary : TRUE
         IN summary[k] + SumCounts([j \in DOMAIN summary \ {k} |-> summary[j]])

ErrorKeys ==
    {"retry_failed", "blocked", "api_error", "unexpected"}
        \cup {"api_error_" \o code : code \in ApiCodes \ {None}}

\* C28: at every point of a send_mass_message run and in the returned
\* result, the counts of error_summary add up to failed_count, every count
\* is positive, and every key is one of retry_failed, blocked, api_error,
\* api_error_<code>, unexpected.
C28_HistogramSum ==
    /\ SumCounts(error_summary) = failed_count
    /\ DOMAIN error_summary \subseteq ErrorKeys
    /\ \A k \in DOMAIN error_summary : error_summary[k] >= 1
    /\ pc = "done" =>
          /\ SumCounts(result.error_summary) = result.failed_count
          /\ DOMAIN result.error_summary \subseteq ErrorKeys

\* A finished run with two failures under one key and nothing else.
C28_Witness ==
    /\ pc = "done"
    /\ result.failed_count = 2
    /\ result.error_summary = [k \in {"blocked"} |-> 2]

-----------------------------------------------------------------------------
(* Participation *)

\* C21: under any interleaving of /start handlers, two concurrent /start
\* updates of one user included, no two participant rows have the same
\* (giveaway_id, user_id); the attempt that loses against the unique index
\* ends with the error reply and adds nothing.
C21_UniqueParticipant ==
    /\ \A i, j \in DOMAIN participants : participants[i] = participants[j] => i = j
    /\ \A h \in DOMAIN starts :
          starts[h].conflict =>
              /\ starts[h].pc = "done"
              /\ ~starts[h].added
              /\ ~starts[h].new_participant
              /\ starts[h].replies = <<"errors.generic">>

\* Two handlers for one user both read "not participating"; one added the
\* row, the other lost against the index.
C21_Witness ==
    \E h, o \in DOMAIN starts :
        /\ h # o
        /\ starts[h].user_id = starts[o].user_id
        /\ starts[h].already_participating = "False" /\ starts[o].already_participating = "False"
        /\ starts[h].conflict
        /\ starts[o].added
        /\ Len(participants) = 1

\* C24: start_handler adds a participant row for a user only if, in that
\* run, check_subscription returned true, an active giveaway was found and
\* check_participation found no row; a run that found the user unsubscribed,
\* no active giveaway, or the user participating adds nothing and answers
\* with the message of that case.
C24_JoinOnlyIf ==
    /\ Len(participants) = Cardinality({h \in DOMAIN starts : starts[h].added})
    /\ \A h \in DOMAIN starts :
          /\ (starts[h].added \/ starts[h].new_participant) =>
                /\ starts[h].is_subscribed = "True"
                /\ starts[h].found = "True"
                /\ starts[h].already_participating = "False"
          /\ starts[h].added => Has(participants, Row(starts[h].giveaway, starts[h].user_id))
          /\ starts[h].is_subscribed = "False" =>
                /\ ~starts[h].added /\ ~starts[h].new_participant
                /\ starts[h].replies # << >>
                /\ starts[h].replies[1] = "user.not_subscribed"
          /\ starts[h].found = "False" =>
                /\ ~starts[h].added /\ ~starts[h].new_participant
                /\ starts[h].replies # << >>
                /\ starts[h].replies[1] = "user.no_active_giveaway"
          /\ starts[h].already_participating = "True" =>
                /\ ~starts[h].added /\ ~starts[h].new_participant
                /\ starts[h].replies # << >>
                /\ starts[h].replies[1] = "user.already_participating"

\* One handler has joined its user; a later /start of the same user was told
\* that the user participates, and nothing more was added.
C24_Witness ==
    \E h, o \in DOMAIN starts :
        /\ starts[h].added
        /\ starts[h].replies = <<"user.participation_confirmed">>
        /\ starts[o].pc = "done"
        /\ starts[o].already_participating = "True"
        /\ Len(participants) = 1

\* C27: once end_giveaway has committed is_active = false for a giveaway, no
\* participant row is committed for that giveaway any more.
C27_NoJoinAfterEnd ==
    \A h \in DOMAIN starts : starts[h].added => starts[h].active_at_commit = "True"

-----------------------------------------------------------------------------
(* Winners *)

\* C22: for every giveaway, after any interleaving of end-giveaway wizard
\* runs, the number of winner rows of the giveaway never exceeds num_winners.
C22_WinnersBound ==
    \A a \in DOMAIN selects :
        selects[a].giveaway_id # 0 =>
            Cardinality({i \in DOMAIN winners : winners[i].giveaway_id = selects[a].giveaway_id})
                <= selects[a].num_winners

\* C23: a select_winners call on participant set P with num_winners k >= 1
\* raises NoParticipantsError and creates nothing when P is empty; otherwise
\* it creates exactly min(k, |P|) winner records, for distinct users, all of
\* them participants.
C23_SelectWinners ==
    \A a \in DOMAIN selects :
        selects[a].outcome # "None" =>
            IF ParticipantUsers(selects[a].giveaway_id) = {}
            THEN selects[a].outcome = "NoParticipantsError" /\ selects[a].created = {}
            ELSE /\ selects[a].outcome = "returned"
                 /\ Cardinality(selects[a].created)
                        = Min(selects[a].num_winners, Cardinality(selects[a].seen))
                 /\ selects[a].created \subseteq ParticipantUsers(selects[a].giveaway_id)

-----------------------------------------------------------------------------
(* Broadcast content *)

\* C25: a broadcast confirmed after the admin chose the text-only type sends
\* content with no media: the MessageContent built by confirm_broadcast has
\* no media_file_id and no media_type, on every path through the handlers.
C25_TextOnly ==
    (report.confirmed /\ report.broadcast_type = "text") =>
        /\ report.content.media_file_id = None
        /\ report.content.media_type = None

Privileged == {"broadcast", "announcement"}

\* C26: a mass broadcast or an announcement is sent only for a sender whose
\* user id is in the admin list.
C26_AdminOnly == \A e \in audit : e[2] \in Privileged => is_admin(e[1])

Delivered == report.result + (IF report.success = "True" THEN 1 ELSE 0)

\* C30: the number shown to the admin is the sent_count of the user broadcast
\* plus one exactly when send_to_channel returned True, for every handler and
\* every target.
C30_SentReported == report.pc = "done" => report.shown = Delivered

-----------------------------------------------------------------------------
(* Media references, progress and waits of the broadcast *)

\* C31: a recipient is counted as skipped only when the content has neither
\* text nor a media reference; with a media reference (media_file_id) no
\* recipient is skipped and no call is a text-only send_message.
C31_MediaNeverSkipped ==
    /\ skipped_count > 0 => ~Truthy(content.text) /\ ~Truthy(content.media_file_id)
    /\ Truthy(content.media_file_id) =>
          /\ skipped_count = 0
          /\ \A i \in DOMAIN trace :
                trace[i].ev = "call" => trace[i].call.method # "send_message"

\* Positions whose iteration is over.
Processed == IF pc \in {"loop", "done"} THEN idx ELSE idx - 1

\* C33: a progress line is logged right after each processed position that
\* is a multiple of the cadence, whether the recipient was sent to, failed
\* or was skipped, and after no other position.
C33_ProgressCadence ==
    /\ Len(progress) = Cardinality({k \in 1..Processed : k % ProgressEvery = 0})
    /\ \A i \in DOMAIN progress : progress[i].idx = i * ProgressEvery

RateWaits == {i \in DOMAIN trace : trace[i].ev = "rate_sleep"}

\* C34: a rate-limit wait happens only right after a delivered first attempt
\* to a recipient that is not the last one, so none comes before the first
\* send or after the send to the last recipient, and at most one lies
\* between the sends to two consecutive recipients; apart from the transport
\* calls themselves the only other suspension of the loop is the RetryAfter
\* sleep.
C34_RateWaits ==
    /\ pc \in {"loop", "send", "rate_sleep", "retry_sleep", "retry_send", "done"}
    /\ \A i \in DOMAIN trace : trace[i].ev \in {"call", "rate_sleep", "retry_sleep"}
    /\ Cardinality(RateWaits) <= 1
    /\ \A i \in RateWaits :
          /\ i = 2 /\ i = Len(trace)
          /\ trace[1].ev = "call"
          /\ hist[idx].first = "ok"
          /\ idx < Len(recipients)
          /\ dispatches >= 1
    /\ pc = "rate_sleep" <=> RateWaits # {}
    /\ (dispatches = 0 \/ idx = Len(recipients)) => pc # "rate_sleep"

\* Both of two recipients were sent to at the first attempt: a wait followed
\* the first send, and the loop is over right after the second.
C34_Witness ==
    /\ pc = "loop"
    /\ Len(recipients) = 2
    /\ idx = 2
    /\ hist[1].first = "ok" /\ hist[1].calls = 1
    /\ hist[2].first = "ok" /\ hist[2].calls = 1
    /\ trace = << >>
    /\ dispatches = 2

-----------------------------------------------------------------------------
(* Main menu *)

Buttons == {report.keyboard[i] : i \in DOMAIN report.keyboard}

\* C32: 'nav:main_menu' shows the admin main menu only to admins, with the
\* announce-giveaway and complete-giveaway buttons present exactly when an
\* active giveaway exists at that moment.
C32_MainMenu ==
    report.screen = "admin.main_menu" =>
        /\ is_admin(report.to)
        /\ "admin:announce_giveaway" \in Buttons <=> report.active
        /\ "admin:complete_giveaway" \in Buttons <=> report.active

====
